---- MODULE Spec2Model ----
(***************************************************************************)
(* Model of the textbook-link resolver of src/app.py.                      *)
(*                                                                         *)
(* Two entry points are modelled over one set of variables:                *)
(*   - a direct call of fetch_links_for_subject, stepped at the adapter    *)
(*     calls (fpc);                                                        *)
(*   - a run of process_streaming: the pending list, the generator         *)
(*     generate() (gpc), the ThreadPoolExecutor tasks and the merge into   *)
(*     the worksheet by process_excel_file.                                *)
(* Text is a sequence of one-character strings, so that strip(), lower()   *)
(* and the `in` substring test are computed and not assumed.               *)
(***************************************************************************)
EXTENDS Integers, Sequences, FiniteSets, TLC

\* ------------------------------------------------------------------ bounds
\* longest candidate list an adapter returns in the model
MaxResults == 2
\* number of subjects of the large run that saturates the worker pool
NumPoolTasks == 9
\* longest curriculum list of the small runs
MaxSubjects == 2

\* ------------------------------------------------------- program constants
MAX_WORKERS == 8
START_ROW == 136
CHUNK_SIZE == 5
NUMBER_WINDOW == 2000

None == "None"

\* --------------------------------------------------------------- text
LowerChar(c) ==
  CASE c = "F" -> "f"
    [] c = "M" -> "m"
    [] c = "A" -> "a"
    [] c = "P'" -> "p'"
    [] c = "A'" -> "a'"
    [] c = "H'" -> "h'"
    [] OTHER -> c

Lower(s) == [i \in 1..Len(s) |-> LowerChar(s[i])]

RECURSIVE LStrip(_)
LStrip(s) == IF s # <<>> /\ Head(s) = " " THEN LStrip(Tail(s)) ELSE s

RECURSIVE RStrip(_)
RStrip(s) ==
  IF s # <<>> /\ s[Len(s)] = " " THEN RStrip(SubSeq(s, 1, Len(s) - 1)) ELSE s

Strip(s) == RStrip(LStrip(s))

\* Python's `token in text` on strings
Contains(text, token) ==
  \E i \in 0..(Len(text) - Len(token)) :
     \A j \in 1..Len(token) : text[i + j] = token[j]

\* a normalization that trims but keeps the case
TrimOnly(value) == Strip(value)

normalize_subject(value) == Lower(Strip(value))

\* ------------------------------------------------------- static overrides
KNOWN_RESOURCE_RULES ==
  << [contains |-> << <<"f", "i", "z">>, <<"k", "u", "l">> >>,
      resources |->
        << [title |-> "Vedenina", url |-> "https://www.iprbookshop.ru/147933.html",
            status |-> "success", note |-> "Uchebnoe posobie IPRbooks"],
           [title |-> "Grishina", url |-> "https://rmebrk.kz/book/1177773",
            status |-> "warning", note |-> "Dostup na rmebrk.kz"] >>] >>

RuleMatches(rule, norm) ==
  \A k \in 1..Len(rule.contains) : Contains(norm, rule.contains[k])

\* index of the first rule whose tokens all occur in norm, 0 when none does
FirstRule(norm) ==
  IF \E k \in 1..Len(KNOWN_RESOURCE_RULES) : RuleMatches(KNOWN_RESOURCE_RULES[k], norm)
  THEN CHOOSE k \in 1..Len(KNOWN_RESOURCE_RULES) :
         /\ RuleMatches(KNOWN_RESOURCE_RULES[k], norm)
         /\ \A j \in 1..(k - 1) : ~RuleMatches(KNOWN_RESOURCE_RULES[j], norm)
  ELSE 0

\* ------------------------------------------------------------- records
\* a record that starts out as an error
InitInfoError ==
  [links |-> <<>>, primary_link |-> None, status |-> "error",
   note |-> "", resources |-> <<>>]

InitInfo ==
  [links |-> <<>>, primary_link |-> None, status |-> "warning",
   note |-> "", resources |-> <<>>]

RECURSIVE RuleResources(_)
RuleResources(rs) ==
  IF rs = <<>> THEN <<>>
  ELSE LET res == Head(rs) IN
       IF res.url = "" THEN RuleResources(Tail(rs))
       ELSE << [title |-> IF res.title # "" THEN res.title ELSE res.url,
                url |-> res.url, status |-> res.status, note |-> res.note,
                source |-> None] >> \o RuleResources(Tail(rs))

Urls(resources) == [i \in 1..Len(resources) |-> resources[i].url]

OverrideInfo(rule) ==
  LET resources == RuleResources(rule.resources) IN
  IF resources = <<>> THEN InitInfo
  ELSE LET st == resources[1].status
           nt == resources[1].note
       IN [links |-> Urls(resources),
           primary_link |-> resources[1].url,
           status |-> st,
           note |-> IF st = "warning" /\ nt = "" THEN "Proverte predlozhennyj resurs" ELSE nt,
           resources |-> resources]

\* ------------------------------------------------------ adapter outcomes
URLS == {"http://a/1", "http://b/2"}

Candidate(u, src, st, nt) ==
  [title |-> "book", url |-> u, status |-> st, note |-> nt, source |-> src]

RECURSIVE UrlLists(_)
UrlLists(n) ==
  IF n = 0 THEN {<<>>}
  ELSE UrlLists(n - 1) \cup
       {Append(l, u) : l \in {x \in UrlLists(n - 1) : Len(x) = n - 1}, u \in URLS}

\* what search_rmebrk_results / search_urait_multiple_results hand to the caller
ListOutcomes(src, nt) ==
  {[kind |-> "raise", results |-> <<>>]} \cup
  {[kind |-> "ok",
    results |-> [i \in 1..Len(l) |-> Candidate(l[i], src, "success", nt)]] :
      l \in UrlLists(MaxResults)}

RmebrkOutcomes == ListOutcomes("rmebrk", "RMEB")
UraitOutcomes == ListOutcomes("urait", "Urait")

\* what fetch_iprbookshop_reader hands to the caller: a dict, None or a raise
IprOutcomes ==
  {[kind |-> "raise", url |-> None], [kind |-> "none", url |-> None]} \cup
  {[kind |-> "ok", url |-> u] : u \in URLS}

Outcomes == [rmebrk : RmebrkOutcomes, urait : UraitOutcomes, ipr : IprOutcomes]

Yields(o, src) ==
  IF src = "ipr" THEN o.ipr.kind = "ok"
  ELSE o[src].kind = "ok" /\ o[src].results # <<>>

Raises(o, src) == o[src].kind = "raise"

\* ------------------------------------------- fetch_links_for_subject steps
RmebrkStep(info, out) ==
  IF out.kind = "ok" /\ out.results # <<>>
  THEN LET result == out.results[1] IN
       [info EXCEPT
          !.links = Append(@, result.url),
          !.primary_link = IF @ # None THEN @ ELSE result.url,
          !.status = "success",
          !.note = "Najdeno na RMEB",
          !.resources = @ \o out.results]
  ELSE info

\* a Urait step that records the link but not the resource
UraitStepNoResource(info, out) ==
  IF out.kind = "ok" /\ out.results # <<>>
  THEN [info EXCEPT !.primary_link = out.results[1].url, !.status = "success"]
  ELSE info

UraitStep(info, out) ==
  IF out.kind = "raise"
  THEN [info EXCEPT !.status = "error", !.note = "Oshibka urait"]
  ELSE IF out.results # <<>>
  THEN LET result == out.results[1] IN
       [info EXCEPT
          !.links = Append(@, result.url),
          !.resources = Append(@, result),
          !.primary_link = result.url,
          !.status = "success",
          !.note = "Najdeno na Urait"]
  ELSE info

IprStep(info, out) ==
  IF out.kind = "ok"
  THEN [info EXCEPT
          !.links = Append(@, out.url),
          !.resources = Append(@, Candidate(out.url, "iprbookshop", "success",
                                            "IPRbooks - note")),
          !.primary_link = IF @ # None THEN @ ELSE out.url,
          !.status = "success",
          !.note = IF @ # "" THEN @ ELSE "Najdeno na IPRbooks"]
  ELSE info

\* a dedup pass that keeps every resource
KeepAllResources(resources, seen_links) == resources

RECURSIVE UniqueResources(_, _)
UniqueResources(resources, seen_links) ==
  IF resources = <<>> THEN <<>>
  ELSE LET res == Head(resources) IN
       IF res.url = "" \/ res.url \in seen_links
       THEN UniqueResources(Tail(resources), seen_links)
       ELSE <<res>> \o UniqueResources(Tail(resources), seen_links \cup {res.url})

DedupStep(info) ==
  LET unique_resources == UniqueResources(info.resources, {})
      unique_links == Urls(unique_resources)
  IN [info EXCEPT
        !.links = unique_links,
        !.resources = unique_resources,
        !.note = IF info.status = "error" /\ unique_links = <<>> /\ @ = ""
                 THEN "Ssylki ne najdeny" ELSE @]

FallbackInfo ==
  [links |-> <<>>, primary_link |-> None, status |-> "error",
   note |-> "Oshibka poiska", resources |-> <<>>]

\* the whole of fetch_links_for_subject on one subject, given what the three
\* adapters answer: the record it returns, or that it raises
FetchLinks(subject, o) ==
  LET k == FirstRule(normalize_subject(subject)) IN
  IF k # 0
  THEN [raised |-> FALSE, info |-> OverrideInfo(KNOWN_RESOURCE_RULES[k])]
  ELSE IF o.ipr.kind = "raise"
  THEN [raised |-> TRUE, info |-> InitInfo]
  ELSE [raised |-> FALSE,
        info |-> DedupStep(IprStep(UraitStep(RmebrkStep(InitInfo, o.rmebrk),
                                             o.urait), o.ipr))]

\* ------------------------------------------------------------- worksheet
\* A worksheet maps the numbers of its non-empty rows to the four tracking
\* columns; a cell without a value (None) is NoNumber (column A), <<>>
\* (column B) or "" (C, D).  A cell of column A can also hold the number 0.
NoNumber == -1

EmptyRow == [a |-> NoNumber, b |-> <<>>, c |-> "", d |-> ""]

\* `not any([a, b, c, d])`: None, 0 and "" are all false
Blank(row) == row.a \in {NoNumber, 0} /\ row.b = <<>> /\ row.c = "" /\ row.d = ""

Row(w, r) == IF r \in DOMAIN w THEN w[r] ELSE EmptyRow

SetRow(w, r, row) == [x \in DOMAIN w \cup {r} |-> IF x = r THEN row ELSE w[x]]

\* str(link_val).strip() over the links of the model
StripLink(u) == IF u = "http://a/1 " THEN "http://a/1" ELSE u

RECURSIVE find_next_row(_, _)
find_next_row(w, start_row) ==
  IF Blank(Row(w, start_row)) THEN start_row
  ELSE find_next_row(w, start_row + 1)

compute_next_number(w, start_row) ==
  LET nums == {w[r].a : r \in {x \in DOMAIN w :
                                 x >= start_row /\ x < start_row + NUMBER_WINDOW}}
      max_num == IF nums = {} THEN 0
                 ELSE CHOOSE n \in nums \cup {0} : \A m \in nums \cup {0} : m <= n
  IN max_num + 1

\* a scan of column B that starts at the append region
SubjectsOfAppendRegion(w) ==
  {normalize_subject(w[r].b) : r \in {x \in DOMAIN w : x >= START_ROW /\ w[x].b # <<>>}}

ExistingSubjects(w) ==
  {normalize_subject(w[r].b) : r \in {x \in DOMAIN w : w[x].b # <<>>}}

ExistingLinks(w, start_row) ==
  {<<normalize_subject(w[r].b), StripLink(w[r].d)>> :
     r \in {x \in DOMAIN w : x >= start_row /\ w[x].b # <<>> /\ w[x].d # ""}}

\* lines 2146-2156 of process_streaming: the pending and the skipped subjects
RECURSIVE SplitSubjects(_, _, _, _)
SplitSubjects(subjects, existing_subjects, pending_subjects, skipped_subjects) ==
  IF subjects = <<>>
  THEN [pending |-> pending_subjects, skipped |-> skipped_subjects]
  ELSE LET subject == Head(subjects)
           norm == normalize_subject(subject)
       IN IF norm = <<>>
          THEN SplitSubjects(Tail(subjects), existing_subjects,
                             pending_subjects, skipped_subjects)
          ELSE IF norm \in existing_subjects
          THEN SplitSubjects(Tail(subjects), existing_subjects, pending_subjects,
                             Append(skipped_subjects, subject))
          ELSE SplitSubjects(Tail(subjects), existing_subjects \cup {norm},
                             Append(pending_subjects, subject), skipped_subjects)

\* the link rows of one subject (lines 2271-2283)
RECURSIVE WriteLinks(_, _, _, _, _)
WriteLinks(w, row_ptr, existing_links, subject, links) ==
  IF links = <<>>
  THEN [ws |-> w, row_ptr |-> row_ptr, existing_links |-> existing_links]
  ELSE LET link == Head(links)
           key == <<normalize_subject(subject), link>>
       IN IF key \in existing_links
          THEN WriteLinks(w, row_ptr, existing_links, subject, Tail(links))
          ELSE LET r == find_next_row(w, row_ptr)
                   row == [Row(w, r) EXCEPT !.b = subject, !.d = link]
               IN WriteLinks(SetRow(w, r, row), r + 1, existing_links \cup {key},
                             subject, Tail(links))

\* a payload that passes the record's note through
PayloadNoteAsIs(status, links, note) == note

PayloadNote(status, links, note) ==
  IF status = "error" /\ links = <<>>
  THEN (IF note # "" THEN note ELSE "Ssylki ne najdeny")
  ELSE IF status = "warning" /\ note = ""
  THEN "Trebuetsya vybrat knigu vruchnuyu"
  ELSE note

\* link_results.get(subject, {"links": []}) and the .get defaults after it
SubjectInfo(results, subject) ==
  IF subject \in DOMAIN results THEN results[subject] ELSE InitInfo

\* a header row that names the subject only when its record has links
NameWhenLinked(subject, links) == IF links = <<>> THEN <<>> ELSE subject

\* b_cell.value = subject, whatever the record holds
HeaderName(subject, links) == subject

\* the loop over pending_subjects of process_excel_file (lines 2252-2299)
RECURSIVE MergeLoop(_, _, _, _, _, _, _)
MergeLoop(w, row_ptr, next_num, existing_links, results, subjects, payload) ==
  IF subjects = <<>> THEN [ws |-> w, results_payload |-> payload]
  ELSE LET subject == Head(subjects)
           r == find_next_row(w, row_ptr)
           info == SubjectInfo(results, subject)
           header == [Row(w, r) EXCEPT !.a = next_num,
                                       !.b = HeaderName(subject, info.links)]
           wl == WriteLinks(SetRow(w, r, header), r + 1, existing_links,
                            subject, info.links)
           entry == [subject |-> subject, status |-> info.status,
                     primary_link |-> info.primary_link, links |-> info.links,
                     resources |-> info.resources,
                     note |-> PayloadNote(info.status, info.links, info.note)]
       IN MergeLoop(wl.ws, wl.row_ptr, next_num + 1, wl.existing_links, results,
                    Tail(subjects), Append(payload, entry))

process_excel_file(w, pending_subjects, results, start_row) ==
  MergeLoop(w, find_next_row(w, start_row), compute_next_number(w, start_row),
            ExistingLinks(w, start_row), results, pending_subjects, <<>>)

\* clean_data_for_json on a subject: runs of blanks become one, ends trimmed
RECURSIVE CollapseBlanks(_)
CollapseBlanks(s) ==
  IF Len(s) < 2 THEN s
  ELSE IF s[1] = " " /\ s[2] = " " THEN CollapseBlanks(Tail(s))
  ELSE <<s[1]>> \o CollapseBlanks(Tail(s))

clean_data_for_json(subject) == Strip(CollapseBlanks(subject))

\* ------------------------------------------------------------ the inputs
SubjectPool ==
  { <<"M", "a">>, <<"m", "a">>, <<"F", "i", "z", " ", "k", "u", "l">>, <<"A">> }

RECURSIVE SubjectLists(_)
SubjectLists(n) ==
  IF n = 0 THEN {<<>>}
  ELSE SubjectLists(n - 1) \cup
       {Append(l, s) : l \in {x \in SubjectLists(n - 1) : Len(x) = n - 1},
                       s \in SubjectPool}

\* what extract_subjects_from_up33 can return: no two entries equal after
\* trim + lowercase
ExtractedLists ==
  {l \in SubjectLists(MaxSubjects) :
     \A i, j \in 1..Len(l) :
        i # j => normalize_subject(l[i]) # normalize_subject(l[j])}

PoolChars == <<"a", "b", "c", "d", "e", "g", "h", "j", "n", "o", "p", "q">>

PoolSubjects == [k \in 1..NumPoolTasks |-> <<PoolChars[k]>>]

Range(f) == {f[x] : x \in DOMAIN f}

WsEmpty == [r \in {} |-> EmptyRow]

WsAppend ==
  [r \in {START_ROW, START_ROW + 1} |->
     IF r = START_ROW THEN [a |-> 5, b |-> <<"M", "a">>, c |-> "", d |-> ""]
     ELSE [a |-> NoNumber, b |-> <<"M", "a">>, c |-> "", d |-> "http://a/1 "]]

WsNumbered ==
  [r \in {10, START_ROW} |->
     IF r = 10 THEN [a |-> 1, b |-> <<" ", "a">>, c |-> "", d |-> ""]
     ELSE [a |-> 7, b |-> <<>>, c |-> "x", d |-> ""]]

Worksheets == {WsEmpty, WsAppend, WsNumbered}

FirstUrl == "http://a/1"

NothingFound ==
  [rmebrk |-> [kind |-> "ok", results |-> <<>>],
   urait |-> [kind |-> "ok", results |-> <<>>],
   ipr |-> [kind |-> "none", url |-> None]]

\* the catalog answers of the runs of process_streaming: at most one source
\* answers something else than "nothing found", with at most one candidate
StreamOutcomes ==
  {o \in Outcomes :
     /\ Cardinality({src \in {"rmebrk", "urait", "ipr"} : o[src] # NothingFound[src]}) <= 1
     /\ \A src \in {"rmebrk", "urait"} :
           Len(o[src].results) <= 1 /\ \A i \in 1..Len(o[src].results) : o[src].results[i].url = FirstUrl
     /\ o.ipr.url \in {None, FirstUrl}}

\* ---------------------------------------------------------------- state
VARIABLES
  catalog,          \* subject -> what the three catalogs answer for it
  fpc,              \* position inside a direct call of fetch_links_for_subject
  fsubject,         \* its argument
  finfo,            \* its local `info`
  fcalls,           \* the adapters it has called, in order
  have_files,       \* both uploads present in the request
  up_subjects,      \* result of extract_subjects_from_up33
  ws,               \* the destination worksheet
  gpc,              \* position of process_streaming / generate()
  gi,               \* loop index of the current loop of generate()
  pending,          \* pending_subjects
  skipped,          \* skipped_subjects
  response,         \* kind of HTTP response returned
  queue,            \* executor work queue (indices into pending)
  running,          \* tasks a worker thread is executing
  future,           \* per task: its Future
  out_of_order,     \* some task completed before a task submitted earlier
  collected,        \* tasks whose future.result() generate() has consumed
  link_results,     \* link_results dict
  events,           \* the event stream yielded so far
  results_payload,  \* value returned by process_excel_file
  mpc,              \* position of the two direct calls of process_excel_file
  msheet,           \* their worksheet
  msheet0,          \* the worksheet as it was before the first call
  msheet1,          \* the worksheet as the first call left it
  mpending,         \* their pending_subjects
  mrecords,         \* their link_results
  mpayload,         \* the value the last call returned
  adapter,          \* the adapter of a direct adapter call
  amax,             \* its max_results
  page,             \* the links the catalog's result page lists, in order
  apc,              \* the request of its request sequence it is at, 0: left
  aidx,             \* loop index over the listed books
  ahist,            \* the requests made so far and how each went
  aresults,         \* its local `results`
  areturn,          \* how the call ended and what it returned
  nsource,          \* get_next_resource: the `source` of the request
  ncurrent,         \* its `current_url`
  nanswer,          \* the JSON it answers
  wlist,            \* the list the adapter returns on every call of a walk
  wtrail,           \* positions of the entries the walk was answered with
  sheet,            \* the rows (cells C and D) of the curriculum sheet
  er,               \* extract_subjects_from_up33: rows read so far
  epc,              \* its position
  esubjects,        \* its local `subjects`
  eseen,            \* its local `seen`
  eoffer,           \* per row read: the text it offered, <<>> when rejected
  esrc,             \* per returned subject: the row it was taken from
  ssubject,         \* fetch_iprbookshop_reader: the subject searched for
  selements,        \* its book_elements
  sidx,             \* elements scored so far
  sscores,          \* the score of each element scored, NoScore for none
  best_score,       \* its local best_score
  best_element,     \* index of its local best_element, 0 for None
  sreturn,          \* the detail URL it goes on with, or that it returned None
  run,              \* which run of process_streaming on the workbook this is
  ws_first          \* the worksheet as the first run left it

fetchVars == <<fpc, fsubject, finfo, fcalls>>
streamVars == <<have_files, up_subjects, ws, gpc, gi, pending, skipped, response,
                queue, running, future, out_of_order, collected, link_results,
                events, results_payload>>
mergeVars == <<mpc, msheet, msheet0, msheet1, mpending, mrecords, mpayload>>
adapterVars == <<adapter, amax, page, apc, aidx, ahist, aresults, areturn>>
nextVars == <<nsource, ncurrent, nanswer>>
walkVars == <<wlist, wtrail>>
extractVars == <<sheet, er, epc, esubjects, eseen, eoffer, esrc>>
selectVars == <<ssubject, selements, sidx, sscores, best_score, best_element, sreturn>>
againVars == <<run, ws_first>>
laterVars == <<walkVars, extractVars, selectVars, againVars>>
auxVars == <<mergeVars, adapterVars, nextVars, laterVars>>
vars == <<catalog, fetchVars, streamVars, auxVars>>

Event(type, subject, info, results, n) ==
  [type |-> type, subject |-> subject, info |-> info, results |-> results, n |-> n]

NewFuture == [state |-> "new", raised |-> FALSE, info |-> InitInfo]

StreamIdle ==
  /\ have_files = FALSE /\ up_subjects = <<>> /\ ws = WsEmpty
  /\ gpc = "off" /\ gi = 0 /\ pending = <<>> /\ skipped = <<>>
  /\ response = "none" /\ queue = <<>> /\ running = {} /\ future = <<>>
  /\ out_of_order = FALSE /\ collected = <<>> /\ link_results = <<>>
  /\ events = <<>> /\ results_payload = <<>>

StreamFresh ==
  /\ gpc = "request" /\ gi = 0 /\ pending = <<>> /\ skipped = <<>>
  /\ response = "none" /\ queue = <<>> /\ running = {} /\ future = <<>>
  /\ out_of_order = FALSE /\ collected = <<>> /\ link_results = <<>>
  /\ events = <<>> /\ results_payload = <<>>

FetchIdle ==
  fpc = "off" /\ fsubject = <<>> /\ finfo = InitInfo /\ fcalls = <<>>

MergeIdle ==
  /\ mpc = "off" /\ msheet = WsEmpty /\ msheet0 = WsEmpty /\ msheet1 = WsEmpty
  /\ mpending = <<>> /\ mrecords = <<>> /\ mpayload = <<>>

AdapterIdle ==
  /\ adapter = "off" /\ amax = 0 /\ page = <<>> /\ apc = 0 /\ aidx = 0
  /\ ahist = <<>> /\ aresults = <<>> /\ areturn = [kind |-> "off", results |-> <<>>]

NextIdle ==
  nsource = "off" /\ ncurrent = <<>> /\ nanswer = [status |-> "off", resource |-> <<>>]

WalkIdle == wlist = <<>> /\ wtrail = <<>>

ExtractIdle ==
  /\ sheet = <<>> /\ er = 0 /\ epc = "off" /\ esubjects = <<>> /\ eseen = {}
  /\ eoffer = <<>> /\ esrc = <<>>

SelectIdle ==
  /\ ssubject = <<>> /\ selements = <<>> /\ sidx = 0 /\ sscores = <<>>
  /\ best_score = 0 /\ best_element = 0 /\ sreturn = "off"

AgainIdle == run = 1 /\ ws_first = [r \in {} |-> EmptyRow]

LaterIdle == WalkIdle /\ ExtractIdle /\ SelectIdle /\ AgainIdle

AuxIdle == MergeIdle /\ AdapterIdle /\ NextIdle /\ LaterIdle

\* a direct call of fetch_links_for_subject
InitFetch ==
  /\ fsubject \in SubjectPool
  /\ catalog \in [{fsubject} -> Outcomes]
  /\ fpc = "call" /\ finfo = InitInfo /\ fcalls = <<>>
  /\ StreamIdle
  /\ AuxIdle

\* a request to /process_streaming
InitStream ==
  /\ FetchIdle
  /\ \/ /\ have_files = TRUE
        /\ up_subjects \in ExtractedLists
        /\ ws \in Worksheets
     \/ /\ have_files = FALSE
        /\ up_subjects = <<>>
        /\ ws = WsAppend
  /\ catalog \in [Range(up_subjects) -> StreamOutcomes]
  /\ StreamFresh
  /\ AuxIdle

\* a request whose curriculum has more subjects than the pool has workers
InitPool ==
  /\ FetchIdle
  /\ have_files = TRUE
  /\ up_subjects = PoolSubjects
  /\ ws = WsEmpty
  /\ catalog \in [Range(up_subjects) -> {NothingFound}]
  /\ StreamFresh
  /\ AuxIdle

Init == InitFetch \/ InitStream

\* ------------------------------------- fetch_links_for_subject, stepwise
FetchStart ==
  /\ fpc = "call"
  /\ LET k == FirstRule(normalize_subject(fsubject)) IN
     IF k # 0
     THEN finfo' = OverrideInfo(KNOWN_RESOURCE_RULES[k]) /\ fpc' = "returned"
     ELSE finfo' = finfo /\ fpc' = "rmebrk"
  /\ UNCHANGED <<auxVars, catalog, fsubject, fcalls, streamVars>>

\* a task that stops consulting sources once one has found a link
StopWhenFound(info) == IF info.links # <<>> THEN "dedup" ELSE "urait"

\* the statement that follows the RMEB block, whatever it found
AfterRmebrk(info) == "urait"

FetchRmebrk ==
  /\ fpc = "rmebrk"
  /\ finfo' = RmebrkStep(finfo, catalog[fsubject].rmebrk)
  /\ fcalls' = Append(fcalls, "rmebrk")
  /\ fpc' = AfterRmebrk(finfo')
  /\ UNCHANGED <<auxVars, catalog, fsubject, streamVars>>

FetchUrait ==
  /\ fpc = "urait"
  /\ finfo' = UraitStep(finfo, catalog[fsubject].urait)
  /\ fcalls' = Append(fcalls, "urait")
  /\ fpc' = "ipr"
  /\ UNCHANGED <<auxVars, catalog, fsubject, streamVars>>

FetchIpr ==
  /\ fpc = "ipr"
  /\ fcalls' = Append(fcalls, "ipr")
  /\ IF catalog[fsubject].ipr.kind = "raise"
     THEN finfo' = finfo /\ fpc' = "raised"
     ELSE finfo' = IprStep(finfo, catalog[fsubject].ipr) /\ fpc' = "dedup"
  /\ UNCHANGED <<auxVars, catalog, fsubject, streamVars>>

FetchDedup ==
  /\ fpc = "dedup"
  /\ finfo' = DedupStep(finfo)
  /\ fpc' = "returned"
  /\ UNCHANGED <<auxVars, catalog, fsubject, fcalls, streamVars>>

NextFetch == FetchStart \/ FetchRmebrk \/ FetchUrait \/ FetchIpr \/ FetchDedup

\* --------------------------------------------------- process_streaming
\* the request handler up to the point where the response is returned
\* a handler that checks the uploads but not what the extraction gave
MissingFileOnly(files, subjects) == ~files

\* the two early returns with status 400 (lines 2119-2124)
BadRequest(files, subjects) == ~files \/ subjects = <<>>

ProcessStreaming ==
  /\ gpc = "request"
  /\ IF BadRequest(have_files, up_subjects)
     THEN /\ response' = "error_400"
          /\ gpc' = "responded"
          /\ UNCHANGED <<pending, skipped, future, gi>>
     ELSE LET sp == SplitSubjects(up_subjects, ExistingSubjects(ws), <<>>, <<>>) IN
          /\ pending' = sp.pending
          /\ skipped' = sp.skipped
          /\ future' = [i \in 1..Len(sp.pending) |-> NewFuture]
          /\ IF sp.pending = <<>>
             THEN response' = "ok_no_pending" /\ gpc' = "responded" /\ gi' = gi
             ELSE response' = "event_stream" /\ gpc' = "subject_start" /\ gi' = 1
  /\ UNCHANGED <<auxVars, catalog, fetchVars, have_files, up_subjects, ws, queue, running,
                 out_of_order, collected, link_results, events, results_payload>>

\* a loop that walks the pending list from its end
FromTheEnd(subjects, i) == subjects[Len(subjects) + 1 - i]

\* `for subject in pending_subjects`: the subject of the i-th iteration
InPendingOrder(subjects, i) == subjects[i]

\* generate(): one subject_start event per pending subject
EmitSubjectStart ==
  /\ gpc = "subject_start"
  /\ events' = Append(events, Event("subject_start",
                                    clean_data_for_json(InPendingOrder(pending, gi)),
                                    InitInfo, <<>>, 0))
  /\ IF gi < Len(pending) THEN gi' = gi + 1 /\ gpc' = gpc
     ELSE gi' = 1 /\ gpc' = "submit"
  /\ UNCHANGED <<auxVars, catalog, fetchVars, have_files, up_subjects, ws, pending, skipped,
                 response, queue, running, future, out_of_order, collected,
                 link_results, results_payload>>

\* executor.submit(fetch_links_for_subject, subject), in pending order
Submit ==
  /\ gpc = "submit"
  /\ queue' = Append(queue, gi)
  /\ future' = [future EXCEPT ![gi].state = "queued"]
  /\ IF gi < Len(pending) THEN gi' = gi + 1 /\ gpc' = gpc
     ELSE gi' = 1 /\ gpc' = "collect"
  /\ UNCHANGED <<auxVars, catalog, fetchVars, have_files, up_subjects, ws, pending, skipped,
                 response, running, out_of_order, collected, link_results, events,
                 results_payload>>

\* an executor that starts a thread for every task
UnboundedWorkers(busy) == TRUE

\* ThreadPoolExecutor(max_workers=MAX_WORKERS): a thread is free for a task
HasFreeWorker(busy) == Cardinality(busy) < MAX_WORKERS

\* a worker thread takes the oldest queued task
TaskStart ==
  /\ queue # <<>>
  /\ HasFreeWorker(running)
  /\ running' = running \cup {Head(queue)}
  /\ future' = [future EXCEPT ![Head(queue)].state = "running"]
  /\ queue' = Tail(queue)
  /\ UNCHANGED <<auxVars, catalog, fetchVars, have_files, up_subjects, ws, gpc, gi, pending,
                 skipped, response, out_of_order, collected, link_results, events,
                 results_payload>>

\* the task's fetch_links_for_subject returns or raises
TaskFinish(i) ==
  /\ i \in running
  /\ LET res == FetchLinks(pending[i], catalog[pending[i]]) IN
     future' = [future EXCEPT ![i] = [state |-> "done", raised |-> res.raised,
                                      info |-> res.info]]
  /\ running' = running \ {i}
  /\ out_of_order' = (out_of_order \/ \E j \in 1..(i - 1) : future[j].state # "done")
  /\ UNCHANGED <<auxVars, catalog, fetchVars, have_files, up_subjects, ws, gpc, gi, pending,
                 skipped, response, queue, collected, link_results, events,
                 results_payload>>

\* a loop that takes the futures in any order (as they complete)
AnyUncollected(done_so_far, n) == (1..n) \ {done_so_far[k] : k \in 1..Len(done_so_far)}

\* `for future in future_to_subject`: the futures in submission order
NextToCollect(done_so_far, n) == {Len(done_so_far) + 1} \cap (1..n)

\* a result read that does not wait for the task
ResultWithoutWaiting(f) == TRUE

\* future.result() returns or raises only once the task has completed
ResultReady(f) == f.state = "done"

\* an error handler that throws away what was gathered before the failure
StoreResultAlone(results, key, info) ==
  IF info = FallbackInfo THEN [s \in {key} |-> info]
  ELSE [s \in DOMAIN results \cup {key} |-> IF s = key THEN info ELSE results[s]]

\* link_results[key] = info
StoreResult(results, key, info) ==
  [s \in DOMAIN results \cup {key} |-> IF s = key THEN info ELSE results[s]]

\* one iteration of the loop over the futures: record the result (or the
\* fallback record when the task raised) and yield subject_done
Collect ==
  /\ gpc = "collect"
  /\ \E i \in NextToCollect(collected, Len(pending)) :
       /\ ResultReady(future[i])
       /\ LET info == IF future[i].raised THEN FallbackInfo ELSE future[i].info
              key == pending[i]
          IN /\ link_results' = StoreResult(link_results, key, info)
             /\ events' = Append(events, Event("subject_done", clean_data_for_json(key),
                                               info, <<>>, 0))
       /\ collected' = Append(collected, i)
       /\ gpc' = IF Len(collected) + 1 = Len(pending) THEN "merge" ELSE gpc
  /\ UNCHANGED <<auxVars, catalog, fetchVars, have_files, up_subjects, ws, gi, pending, skipped,
                 response, queue, running, future, out_of_order, results_payload>>

\* process_excel_file(ws, pending_subjects, link_results, start_row); wb.save
Merge ==
  /\ gpc = "merge"
  /\ LET m == process_excel_file(ws, pending, link_results, START_ROW) IN
     /\ ws' = m.ws
     /\ results_payload' = m.results_payload
  /\ gpc' = "chunks"
  /\ gi' = 0
  /\ UNCHANGED <<auxVars, catalog, fetchVars, have_files, up_subjects, pending, skipped,
                 response, queue, running, future, out_of_order, collected,
                 link_results, events>>

Min(a, b) == IF a < b THEN a ELSE b

\* one results_chunk event of at most CHUNK_SIZE results
EmitChunk ==
  /\ gpc = "chunks"
  /\ events' = Append(events,
        Event("results_chunk", <<>>, InitInfo,
              SubSeq(results_payload, gi * CHUNK_SIZE + 1,
                     Min((gi + 1) * CHUNK_SIZE, Len(results_payload))), gi))
  /\ IF (gi + 1) * CHUNK_SIZE < Len(results_payload)
     THEN gi' = gi + 1 /\ gpc' = gpc
     ELSE gi' = gi /\ gpc' = "complete"
  /\ UNCHANGED <<auxVars, catalog, fetchVars, have_files, up_subjects, ws, pending, skipped,
                 response, queue, running, future, out_of_order, collected,
                 link_results, results_payload>>

EmitComplete ==
  /\ gpc = "complete"
  /\ events' = Append(events, Event("complete", <<>>, InitInfo, <<>>,
                                    Len(results_payload)))
  /\ gpc' = "done"
  /\ UNCHANGED <<auxVars, catalog, fetchVars, have_files, up_subjects, ws, gi, pending, skipped,
                 response, queue, running, future, out_of_order, collected,
                 link_results, results_payload>>

TaskStep == \E i \in 1..Len(pending) : TaskFinish(i)

NextStream ==
  \/ ProcessStreaming
  \/ EmitSubjectStart
  \/ Submit
  \/ TaskStart
  \/ TaskStep
  \/ Collect
  \/ Merge
  \/ EmitChunk
  \/ EmitComplete

Next == NextFetch \/ NextStream

Spec == Init /\ [][Next]_vars

\* the client uploads the same curriculum and the workbook of the complete
\* event (file_data) in a second request
RunAgain ==
  /\ gpc = "done" /\ run = 1
  /\ run' = 2
  /\ ws_first' = ws
  /\ gpc' = "request" /\ gi' = 0 /\ pending' = <<>> /\ skipped' = <<>>
  /\ response' = "none" /\ queue' = <<>> /\ running' = {} /\ future' = <<>>
  /\ out_of_order' = FALSE /\ collected' = <<>> /\ link_results' = <<>>
  /\ events' = <<>> /\ results_payload' = <<>>
  /\ UNCHANGED <<catalog, fetchVars, have_files, up_subjects, ws, mergeVars, adapterVars,
                 nextVars, walkVars, extractVars, selectVars>>

NextAgain == NextStream \/ RunAgain

SpecAgain == InitStream /\ [][NextAgain]_vars

\* The pool threads and the generator are threads of a running process, and
\* every adapter call is bounded by its timeout: no enabled step waits for ever.
Fairness ==
  /\ WF_vars(TaskStart)
  /\ \A i \in 1..NumPoolTasks : WF_vars(TaskFinish(i))
  /\ WF_vars(Submit)
  /\ WF_vars(Collect)

SpecPool == InitPool /\ [][NextStream]_vars /\ Fairness

\* the step TaskFinish(i), seen on the set of running tasks: it is the only
\* step that takes i out of `running`, and it is enabled whenever i is in it
TaskReturns(i) == i \in running /\ running' = running \ {i}

\* the step Merge, seen on the generator's position
MergeReturns == gpc = "merge" /\ gpc' = "chunks"

\* a request served to its end: the server keeps iterating the generator,
\* the pool threads keep running and every adapter call returns
FairRun ==
  /\ WF_vars(EmitSubjectStart) /\ WF_vars(Submit) /\ WF_vars(TaskStart)
  /\ WF_vars(Collect) /\ WF_vars(EmitChunk) /\ WF_vars(EmitComplete)
  /\ \A i \in 1..MaxSubjects : WF_running(TaskReturns(i))
  /\ WF_gpc(MergeReturns)

SpecRun == InitStream /\ [][NextStream]_vars /\ FairRun

\* ------------------------------------- the adapters, request by request
\* longest listing of a catalog result page
MaxPageLinks == 2
\* largest max_results asked for
MaxAsked == 2
\* most requests of one call that fail
MaxFaults == 1

RmebrkBase == "https://rmebrk.kz"
UraitBase == "https://urait.ru"
IprBase == "https://www.iprbookshop.ru"

Adapters == {"rmebrk", "urait", "ipr_reader", "ipr_multi"}

Base(a) ==
  CASE a = "rmebrk" -> RmebrkBase
    [] a = "urait" -> UraitBase
    [] OTHER -> IprBase

\* a URL or an href is the sequence of the pieces of its text; the books a
\* catalog lists are number 1 and number 11, a number being its digits
Books == {<<"1">>, <<"1", "1">>}

BookPath(id) == <<"/book/">> \o id

\* an href is a relative link or an absolute one
Hrefs(a) == {BookPath(id) : id \in Books} \cup {<<Base(a)>> \o BookPath(id) : id \in Books}

RECURSIVE Listings(_, _)
Listings(a, n) ==
  IF n = 0 THEN {<<>>}
  ELSE Listings(a, n - 1) \cup
       {Append(l, h) : l \in {x \in Listings(a, n - 1) : Len(x) = n - 1}, h \in Hrefs(a)}

\* href.startswith("http")
IsAbsolute(href) == Head(href) \in {RmebrkBase, UraitBase, IprBase}

urljoin(base, href) == IF IsAbsolute(href) THEN href ELSE <<base>> \o href

PublicationMark == "/epd-reader?publicationId="

\* the link of the "read" button of a book's detail page, joined to its URL
ReaderUrl(detail_url) ==
  <<Head(detail_url), PublicationMark>> \o SubSeq(detail_url, 3, Len(detail_url))

\* the loop of search_rmebrk_results over book_links (lines 802-926)
RECURSIVE RmebrkLoop(_, _, _)
RmebrkLoop(links, results, max_results) ==
  IF links = <<>> \/ Len(results) >= max_results THEN results
  ELSE LET book_url == urljoin(RmebrkBase, Head(links)) IN
       IF \E i \in 1..Len(results) : results[i].url = book_url
       THEN RmebrkLoop(Tail(links), results, max_results)
       ELSE RmebrkLoop(Tail(links),
                       Append(results, Candidate(book_url, "rmebrk", "success", "RMEB")),
                       max_results)

RmebrkLinks(book_links, max_results) ==
  RmebrkLoop(SubSeq(book_links, 1, Min(Len(book_links), max_results * 5)), <<>>,
             max_results)

\* the loop of search_urait_multiple_results over book_links (lines 952-983)
RECURSIVE UraitLoop(_, _, _, _)
UraitLoop(links, seen_urls, results, max_results) ==
  IF links = <<>> \/ Len(results) >= max_results THEN results
  ELSE LET href == Head(links) IN
       IF href \in seen_urls
       THEN UraitLoop(Tail(links), seen_urls, results, max_results)
       ELSE LET full_url == IF ~IsAbsolute(href) THEN urljoin(UraitBase, href) ELSE href
            IN UraitLoop(Tail(links), seen_urls \cup {href},
                         Append(results, Candidate(full_url, "urait", "success", "Urait")),
                         max_results)

UraitLinks(book_links, max_results) ==
  UraitLoop(SubSeq(book_links, 1, Min(Len(book_links), max_results * 2)), {}, <<>>,
            max_results)

\* how a request can go wrong
Faults == {"transport", "timeout", "status", "auth", "parse"}

\* the exception a fault surfaces as at a request, "none" when it raises none
Raised(step, fault) ==
  CASE fault = "transport" -> "ConnectionError"
    [] fault = "timeout" -> "Timeout"
    [] fault = "parse" -> "Exception"
    [] fault = "status" /\ step.raise_for_status -> "HTTPError"
    [] OTHER -> "none"

\* an except clause that catches the named class but none of its subclasses
CatchesExactly(cls, exc) == cls = exc

\* `except cls` catches the exception
Catches(cls, exc) ==
  \/ cls = "Exception"
  \/ cls = "RequestException" /\ exc \in {"ConnectionError", "Timeout", "HTTPError"}
  \/ cls = exc

\* the except clauses around a request, innermost first
RECURSIVE Handle(_, _)
Handle(handlers, exc) ==
  IF handlers = <<>> THEN "propagate"
  ELSE IF Catches(Head(handlers).cls, exc) THEN Head(handlers).effect
  ELSE Handle(Tail(handlers), exc)

\* what becomes of the call when the request goes as `fault` says: "ok",
\* "continue" (swallowed), "blind" (the response is used as it is), "empty"
\* (return [] / None) or "propagate"
Effect(step, fault) ==
  IF fault = "ok" THEN "ok"
  ELSE IF Raised(step, fault) # "none" THEN Handle(step.handlers, Raised(step, fault))
  ELSE IF fault \in step.checks THEN "empty"
  ELSE "blind"

Except(cls, effect) == [cls |-> cls, effect |-> effect]

Request(name, parses, raise_for_status, checks, handlers, listing, probe) ==
  [name |-> name, parses |-> parses, raise_for_status |-> raise_for_status,
   checks |-> checks, handlers |-> handlers, listing |-> listing, probe |-> probe]

\* search_rmebrk_results: the main page, the search, the AJAX probes, parsing
RmebrkSteps ==
  LET outer == <<Except("Exception", "empty")>> IN
  << Request("main", FALSE, FALSE, {"status"},
             <<Except("Exception", "empty")>> \o outer, FALSE, FALSE),
     Request("search", TRUE, FALSE, {"status"},
             <<Except("Exception", "empty")>> \o outer, TRUE, FALSE),
     Request("ajax", TRUE, FALSE, {},
             <<Except("Exception", "continue"), Except("Exception", "continue")>> \o outer,
             FALSE, FALSE),
     Request("links", TRUE, FALSE, {}, outer, FALSE, FALSE) >>

\* search_urait_multiple_results: one GET with raise_for_status
UraitSteps ==
  << Request("search", TRUE, TRUE, {}, <<Except("Exception", "empty")>>, TRUE, FALSE) >>

\* fetch_iprbookshop_ajax_results answers [] whatever goes wrong
IprAjax(outer) ==
  Request("ajax", TRUE, FALSE, {}, <<Except("Exception", "continue")>> \o outer,
          FALSE, TRUE)

\* fetch_iprbookshop_reader: AJAX, else main page and search form; detail page
ReaderSteps ==
  LET outer == <<Except("Timeout", "empty"), Except("ConnectionError", "empty"),
                 Except("RequestException", "empty"), Except("Exception", "empty")>>
  IN << IprAjax(outer),
        Request("main", FALSE, FALSE, {}, <<Except("Exception", "continue")>> \o outer,
                FALSE, FALSE),
        Request("search", TRUE, FALSE, {"status", "auth"},
                <<Except("Timeout", "empty"), Except("RequestException", "empty")>> \o outer,
                TRUE, FALSE),
        Request("detail", TRUE, FALSE, {}, <<Except("Exception", "continue")>> \o outer,
                FALSE, FALSE) >>

\* search_iprbookshop_multiple_results: the same, a detail page per book
MultiSteps ==
  LET outer == <<Except("Exception", "empty")>> IN
  << IprAjax(outer),
     Request("main", FALSE, FALSE, {}, <<Except("Exception", "continue")>> \o outer,
             FALSE, FALSE),
     Request("search", TRUE, FALSE, {"status"},
             <<Except("Timeout", "empty"), Except("RequestException", "empty")>> \o outer,
             TRUE, FALSE),
     Request("detail", TRUE, FALSE, {},
             <<Except("Exception", "continue"), Except("Exception", "continue")>> \o outer,
             FALSE, FALSE) >>

\* the ways the request can go, at most MaxFaults requests of a call failing
FaultsSoFar == Cardinality({k \in 1..Len(ahist) : ahist[k].fault # "ok"})

StepFaults(step) ==
  {"ok"} \cup
  (IF FaultsSoFar >= MaxFaults THEN {}
   ELSE IF step.name = "links" THEN {"parse"}
   ELSE IF step.parses THEN Faults
   ELSE Faults \ {"parse"})

\* a redirect or an error page taken for the result page lists no book
PageAfter(step, eff) == IF step.listing /\ eff = "blind" THEN <<>> ELSE page

\* the AJAX probe, when it found books, replaces main page and search form
PcAfter(step, eff, listing) ==
  IF step.probe /\ eff = "ok" /\ listing # <<>> THEN apc + 3 ELSE apc + 1

Leave(kind, results) ==
  /\ areturn' = [kind |-> kind, results |-> results]
  /\ apc' = 0

\* a direct call of one adapter on one catalog answer
AdapterCalled(a, caps) ==
  /\ adapter = a
  /\ amax \in caps
  /\ page \in Listings(a, MaxPageLinks)
  /\ apc = 1 /\ aidx = 1 /\ ahist = <<>> /\ aresults = <<>>
  /\ areturn = [kind |-> "pending", results |-> <<>>]

InitAdapter ==
  /\ FetchIdle /\ StreamIdle /\ MergeIdle /\ NextIdle /\ LaterIdle /\ catalog = <<>>
  /\ \E a \in Adapters : AdapterCalled(a, 1..MaxAsked)

ListedLinks(name, book_links, max_results) ==
  IF name = "rmebrk" THEN RmebrkLinks(book_links, max_results)
  ELSE UraitLinks(book_links, max_results)

\* one request of search_rmebrk_results / search_urait_multiple_results; the
\* last one is followed by the loop over the links and the return
ListAdapter(name, steps) ==
  /\ adapter = name
  /\ apc \in 1..Len(steps)
  /\ \E fault \in StepFaults(steps[apc]) :
       LET step == steps[apc]
           eff == Effect(step, fault)
           listing == PageAfter(step, eff)
       IN /\ ahist' = Append(ahist, [step |-> step.name, fault |-> fault])
          /\ IF eff = "propagate" THEN Leave("raised", <<>>) /\ page' = page
             ELSE IF eff = "empty" THEN Leave("returned", <<>>) /\ page' = page
             ELSE IF apc = Len(steps)
             THEN Leave("returned", ListedLinks(name, listing, amax)) /\ page' = listing
             ELSE apc' = apc + 1 /\ page' = listing /\ areturn' = areturn
  /\ UNCHANGED <<laterVars, catalog, fetchVars, streamVars, mergeVars, nextVars, adapter, amax,
                 aidx, aresults>>

search_rmebrk_results == ListAdapter("rmebrk", RmebrkSteps)

search_urait_multiple_results == ListAdapter("urait", UraitSteps)

\* one request of fetch_iprbookshop_reader; the detail request is followed
\* by the return of the chosen book
fetch_iprbookshop_reader ==
  /\ adapter = "ipr_reader"
  /\ apc \in 1..Len(ReaderSteps)
  /\ \E fault \in StepFaults(ReaderSteps[apc]) :
       LET step == ReaderSteps[apc]
           eff == Effect(step, fault)
           listing == PageAfter(step, eff)
           pc == PcAfter(step, eff, listing)
       IN /\ ahist' = Append(ahist, [step |-> step.name, fault |-> fault])
          /\ IF eff = "propagate" THEN Leave("raised", <<>>) /\ page' = page
             ELSE IF eff = "empty" THEN Leave("returned", <<>>) /\ page' = page
             ELSE IF step.name = "detail"
             THEN /\ \E i \in 1..Len(page) :
                       LET detail_url == urljoin(IprBase, page[i]) IN
                       \E url \in (IF eff = "ok" THEN {detail_url, ReaderUrl(detail_url)}
                                   ELSE {detail_url}) :
                          Leave("returned",
                                <<Candidate(url, "iprbookshop", "success", "IPRbooks")>>)
                  /\ page' = page
             ELSE IF pc = Len(ReaderSteps) /\ listing = <<>>
             THEN Leave("returned", <<>>) /\ page' = listing
             ELSE apc' = pc /\ page' = listing /\ areturn' = areturn
  /\ UNCHANGED <<laterVars, catalog, fetchVars, streamVars, mergeVars, nextVars, adapter, amax,
                 aidx, aresults>>

\* one request of search_iprbookshop_multiple_results; the detail request is
\* made for each of the first max_results books
search_iprbookshop_multiple_results ==
  /\ adapter = "ipr_multi"
  /\ apc \in 1..Len(MultiSteps)
  /\ \E fault \in StepFaults(MultiSteps[apc]) :
       LET step == MultiSteps[apc]
           eff == Effect(step, fault)
           listing == PageAfter(step, eff)
           pc == PcAfter(step, eff, listing)
       IN /\ ahist' = Append(ahist, [step |-> step.name, fault |-> fault])
          /\ IF eff = "propagate"
             THEN Leave("raised", <<>>) /\ page' = page /\ UNCHANGED <<aidx, aresults>>
             ELSE IF eff = "empty"
             THEN Leave("returned", <<>>) /\ page' = page /\ UNCHANGED <<aidx, aresults>>
             ELSE IF step.name = "detail"
             THEN LET detail_url == urljoin(IprBase, page[aidx]) IN
                  \E url \in (IF eff = "ok" THEN {detail_url, ReaderUrl(detail_url)}
                              ELSE {detail_url}) :
                     LET results == Append(aresults,
                                           Candidate(url, "iprbookshop", "warning",
                                                     "IPRbooks - variant"))
                     IN /\ aresults' = results
                        /\ page' = page
                        /\ IF aidx < Min(Len(page), amax)
                           THEN aidx' = aidx + 1 /\ apc' = apc /\ areturn' = areturn
                           ELSE aidx' = aidx /\ Leave("returned", results)
             ELSE IF pc = Len(MultiSteps) /\ listing = <<>>
             THEN Leave("returned", <<>>) /\ page' = listing /\ UNCHANGED <<aidx, aresults>>
             ELSE /\ apc' = pc /\ page' = listing /\ areturn' = areturn
                  /\ UNCHANGED <<aidx, aresults>>
  /\ UNCHANGED <<laterVars, catalog, fetchVars, streamVars, mergeVars, nextVars, adapter, amax>>

NextAdapter ==
  \/ search_rmebrk_results
  \/ search_urait_multiple_results
  \/ fetch_iprbookshop_reader
  \/ search_iprbookshop_multiple_results

SpecAdapter == InitAdapter /\ [][NextAdapter]_vars

\* ------------------------------------------------------ get_next_resource
KnownSources == {"rmebrk", "urait", "iprbookshop"}

AdapterOf(source) ==
  CASE source = "rmebrk" -> "rmebrk"
    [] source = "urait" -> "urait"
    [] source = "iprbookshop" -> "ipr_multi"

\* max_results of the re-run: 5 or 10 for RMEB (VERCEL), 10 otherwise
Caps(source) == IF source = "rmebrk" THEN {5, 10} ELSE {10}

\* the URLs a client can be showing: a book's page, its reader link, or a
\* page of another site
ShownUrls(source) ==
  LET pages == {<<Base(AdapterOf(source))>> \o BookPath(id) : id \in Books} IN
  pages \cup {<<"https://example.org">>} \cup
  (IF source = "iprbookshop" THEN {ReaderUrl(u) : u \in pages} ELSE {})

\* result["url"] == current_url
MatchExact(current_url, result) == result.url = current_url

\* current_url in result["url"] or result["url"] in current_url
MatchEitherWay(current_url, result) ==
  Contains(result.url, current_url) \/ Contains(current_url, result.url)

\* current_url.split("publicationId=")[1].split("&")[0], <<>> for None
PublicationId(current_url) ==
  IF \E k \in 1..Len(current_url) : current_url[k] = PublicationMark
  THEN LET k == CHOOSE k \in 1..Len(current_url) : current_url[k] = PublicationMark
       IN SubSeq(current_url, k + 1, Len(current_url))
  ELSE <<>>

MatchIpr(current_url, result) ==
  LET current_publication_id == PublicationId(current_url) IN
  \/ current_publication_id # <<>> /\ Contains(result.url, current_publication_id)
  \/ MatchEitherWay(current_url, result)

\* the loop that finds current_index (0-based, -1 when nothing matches)
Matches(source, current_url, result) ==
  CASE source = "rmebrk" -> MatchEitherWay(current_url, result)
    [] source = "urait" -> MatchExact(current_url, result)
    [] source = "iprbookshop" -> MatchIpr(current_url, result)

CurrentIndex(results, current_url, source) ==
  LET hits == {i \in 1..Len(results) : Matches(source, current_url, results[i])} IN
  IF hits = {} THEN -1
  ELSE (CHOOSE i \in hits : \A j \in hits : i <= j) - 1

Answer(status, resource) == [status |-> status, resource |-> resource]

NextEntry(results, current_index) ==
  LET next_index == current_index + 1 IN
  IF next_index < Len(results) THEN Answer("success", <<results[next_index + 1]>>)
  ELSE Answer("no_more", <<>>)

InitNext ==
  /\ FetchIdle /\ StreamIdle /\ MergeIdle /\ LaterIdle /\ catalog = <<>>
  /\ nsource \in KnownSources \cup {"library"}
  /\ nanswer = Answer("pending", <<>>)
  /\ IF nsource \in KnownSources
     THEN /\ ncurrent \in ShownUrls(nsource)
          /\ AdapterCalled(AdapterOf(nsource), Caps(nsource))
     ELSE /\ ncurrent \in ShownUrls("urait")
          /\ AdapterIdle

\* what the handler answers, given how the adapter it called ended
NextAnswer(source, kind, results, current_url) ==
  CASE source = "rmebrk" ->
         IF kind = "raised" \/ results = <<>> THEN Answer("no_more", <<>>)
         ELSE NextEntry(results, CurrentIndex(results, current_url, source))
    [] source = "urait" ->
         IF kind = "raised" THEN Answer("raised", <<>>)
         ELSE NextEntry(results, CurrentIndex(results, current_url, source))
    [] source = "iprbookshop" ->
         IF kind = "raised" THEN Answer("error", <<>>)
         ELSE IF results = <<>> THEN Answer("no_more", <<>>)
         ELSE NextEntry(results, CurrentIndex(results, current_url, source))
    [] OTHER -> Answer("error", <<>>)

\* the handler, from the return of the adapter it called to its answer
get_next_resource ==
  /\ nanswer.status = "pending"
  /\ nsource \in KnownSources => areturn.kind \in {"returned", "raised"}
  /\ nanswer' = NextAnswer(nsource, areturn.kind, areturn.results, ncurrent)
  /\ UNCHANGED <<laterVars, catalog, fetchVars, streamVars, mergeVars, adapterVars, nsource,
                 ncurrent>>

NextNext ==
  \/ search_rmebrk_results
  \/ search_urait_multiple_results
  \/ search_iprbookshop_multiple_results
  \/ get_next_resource

SpecNext == InitNext /\ [][NextNext]_vars

\* ------------------------------ get_next_resource, called again and again
\* the lists search_iprbookshop_multiple_results can return for a listing:
\* per book the reader link or, failing that, the URL of the detail page
IprLists ==
  UNION {
    { [i \in 1..Len(p) |->
         Candidate(IF readers[i] THEN ReaderUrl(urljoin(IprBase, p[i]))
                   ELSE urljoin(IprBase, p[i]),
                   "iprbookshop", "warning", "IPRbooks - variant")] :
        readers \in [1..Len(p) -> BOOLEAN] } :
    p \in Listings("ipr_multi", MaxPageLinks) }

\* the lists the adapter of a source returns when no request fails
FreshLists(source) ==
  CASE source = "rmebrk" ->
         {RmebrkLinks(p, 10) : p \in Listings("rmebrk", MaxPageLinks)}
    [] source = "urait" ->
         {UraitLinks(p, 10) : p \in Listings("urait", MaxPageLinks)}
    [] source = "iprbookshop" -> IprLists

\* a client that shows one URL of a source and asks for the next one
InitWalk ==
  /\ FetchIdle /\ StreamIdle /\ MergeIdle /\ AdapterIdle /\ catalog = <<>>
  /\ ExtractIdle /\ SelectIdle /\ AgainIdle
  /\ nsource \in KnownSources
  /\ wlist \in FreshLists(nsource)
  /\ ncurrent \in ShownUrls(nsource)
  /\ nanswer = Answer("pending", <<>>)
  /\ wtrail = <<>>

\* one more call, with the URL of the previous answer as current_url; the
\* walk is followed for one call more than the list has entries
WalkCall ==
  /\ nsource \in KnownSources
  /\ nanswer.status \in {"pending", "success"}
  /\ Len(wtrail) <= Len(wlist)
  /\ LET current_url == IF nanswer.status = "success" THEN nanswer.resource[1].url
                        ELSE ncurrent
         answer == NextAnswer(nsource, "returned", wlist, current_url)
     IN /\ nanswer' = answer
        /\ ncurrent' = current_url
        /\ wtrail' = IF answer.status = "success"
                     THEN Append(wtrail, CurrentIndex(wlist, current_url, nsource) + 2)
                     ELSE wtrail
  /\ UNCHANGED <<catalog, fetchVars, streamVars, mergeVars, adapterVars, nsource, wlist,
                 extractVars, selectVars, againVars>>

NextWalk == WalkCall

SpecWalk == InitWalk /\ [][NextWalk]_vars

\* ------------------------------------ process_excel_file, called directly
\* longest links list of a record handed to the merge
MaxLinks == 2

MergeUrls == {"http://a/1", "http://a/1 ", "http://b/2"}

RECURSIVE LinkLists(_)
LinkLists(n) ==
  IF n = 0 THEN {<<>>}
  ELSE LinkLists(n - 1) \cup
       {Append(l, u) : l \in {x \in LinkLists(n - 1) : Len(x) = n - 1}, u \in MergeUrls}

\* a resolved record with the given links
MergeRecord(links) ==
  [links |-> links,
   primary_link |-> IF links = <<>> THEN None ELSE links[1],
   status |-> IF links = <<>> THEN "warning" ELSE "success",
   note |-> IF links = <<>> THEN "" ELSE "Najdeno na Urait",
   resources |-> [i \in 1..Len(links) |-> Candidate(links[i], "urait", "success", "Urait")]]

MergeRecords == {MergeRecord(l) : l \in LinkLists(MaxLinks)}

MergeSubjects == {<<"M", "a">>, <<"m", "a">>, <<"A">>}

MergePendings ==
  {<<s>> : s \in MergeSubjects} \cup {<<s, t>> : s, t \in MergeSubjects}

\* append region: a numbered row that holds a subject and its link
WsPhysics ==
  [r \in {START_ROW} |-> [a |-> 5, b |-> <<"M", "a">>, c |-> "", d |-> "http://a/1"]]

\* append region: a row whose column A holds the number 0 and nothing else
WsZero == [r \in {START_ROW} |-> [a |-> 0, b |-> <<>>, c |-> "", d |-> ""]]

\* append region: a blank row between two rows that hold something
WsGap ==
  [r \in {START_ROW, START_ROW + 2} |->
     IF r = START_ROW THEN [a |-> 3, b |-> <<"A">>, c |-> "", d |-> ""]
     ELSE [a |-> NoNumber, b |-> <<>>, c |-> "x", d |-> ""]]

\* append region: a numbered row past the window compute_next_number scans
WsFar ==
  [r \in {START_ROW + NUMBER_WINDOW} |-> [a |-> 1, b |-> <<"A">>, c |-> "", d |-> ""]]

\* append region: a row whose column A holds a negative number
WsNegative == [r \in {START_ROW} |-> [a |-> -5, b |-> <<"A">>, c |-> "", d |-> ""]]

MergeWorksheets ==
  {WsEmpty, WsAppend, WsNumbered, WsPhysics, WsZero, WsGap, WsFar, WsNegative}

InitMerge ==
  /\ FetchIdle /\ StreamIdle /\ AdapterIdle /\ NextIdle /\ LaterIdle /\ catalog = <<>>
  /\ mpc = "first"
  /\ msheet \in MergeWorksheets /\ msheet0 = msheet /\ msheet1 = msheet
  /\ mpending \in MergePendings
  /\ mrecords \in [Range(mpending) -> MergeRecords]
  /\ mpayload = <<>>

\* process_excel_file(ws, pending_subjects, link_results, start_row)
MergeFirst ==
  /\ mpc = "first"
  /\ LET m == process_excel_file(msheet, mpending, mrecords, START_ROW) IN
     /\ msheet' = m.ws
     /\ msheet1' = m.ws
     /\ mpayload' = m.results_payload
  /\ mpc' = "second"
  /\ UNCHANGED <<laterVars, catalog, fetchVars, streamVars, adapterVars, nextVars, msheet0, mpending,
                 mrecords>>

\* the same call once more, on the worksheet the first call left
MergeSecond ==
  /\ mpc = "second"
  /\ LET m == process_excel_file(msheet, mpending, mrecords, START_ROW) IN
     /\ msheet' = m.ws
     /\ mpayload' = m.results_payload
  /\ mpc' = "done"
  /\ UNCHANGED <<laterVars, catalog, fetchVars, streamVars, adapterVars, nextVars, msheet0, msheet1,
                 mpending, mrecords>>

NextMerge == MergeFirst \/ MergeSecond

SpecMerge == InitMerge /\ [][NextMerge]_vars

\* ================================================================ claims
Sources == {"rmebrk", "urait", "ipr"}
AllCalls == <<"rmebrk", "urait", "ipr">>
Statuses == {"success", "warning", "error"}

NoDuplicateUrls(resources) ==
  \A i, j \in 1..Len(resources) : i # j => resources[i].url # resources[j].url

WellFormedRecord(info) ==
  NoDuplicateUrls(info.resources) /\ info.links = Urls(info.resources)

PrimaryInLinks(info) ==
  info.primary_link = None \/ \E i \in 1..Len(info.links) : info.links[i] = info.primary_link

\* the direct call has returned a record
Returned == fpc = "returned"
\* ... after consulting the adapters (no static override)
ReturnedFromSources == fpc = "returned" /\ fcalls # <<>>

SubjectDoneEvents == SelectSeq(events, LAMBDA e : e.type = "subject_done")

C2_PrimaryLinkInLinks ==
  /\ Returned => PrimaryInLinks(finfo)
  /\ \A i \in DOMAIN future : future[i].state = "done" => PrimaryInLinks(future[i].info)
  /\ \A s \in DOMAIN link_results : PrimaryInLinks(link_results[s])

\* C2 witness: one run holds a fallback record and a record with a primary link
C2_Witness ==
  \E s, t \in DOMAIN link_results :
     /\ link_results[s] = FallbackInfo
     /\ link_results[t].primary_link # None

\* the first candidate of the first source, in the order RMEB, Urait,
\* IPRbooks, that yielded one
FirstYielded(o) ==
  IF Yields(o, "rmebrk") THEN o.rmebrk.results[1].url
  ELSE IF Yields(o, "urait") THEN o.urait.results[1].url
  ELSE IF Yields(o, "ipr") THEN o.ipr.url
  ELSE None

\* C3 (as claimed): the sources are consulted in the order RMEB, Urait,
\* IPRbooks, and primary_link of the returned record is the link of the
\* first source that yielded a candidate: no later source changes it.
C3_FirstSourceFixesPrimary ==
  ReturnedFromSources =>
     /\ fcalls = AllCalls
     /\ finfo.primary_link = FirstYielded(catalog[fsubject])

\* C4 (as claimed): the status of the returned record is success if a source
\* yielded a link, warning if none yielded and none raised, error only if
\* every source raised; a record with links is never error or warning.
C4_StatusFromSources ==
  ReturnedFromSources =>
     LET o == catalog[fsubject] IN
     /\ (\E src \in Sources : Yields(o, src)) => finfo.status = "success"
     /\ (\A src \in Sources : ~Yields(o, src) /\ ~Raises(o, src)) => finfo.status = "warning"
     /\ finfo.status = "error" => \A src \in Sources : Raises(o, src)
     /\ finfo.links # <<>> => finfo.status = "success"

\* every source answered, and none with a candidate
NothingYielded(o) == \A src \in Sources : ~Yields(o, src) /\ ~Raises(o, src)

\* C5 (as claimed): when all three sources return zero candidates for a
\* subject that matches no override, its record has status error, empty
\* links and a non-empty note.
C5_Original_NothingFoundIsError ==
  (ReturnedFromSources /\ NothingYielded(catalog[fsubject])) =>
     finfo.status = "error" /\ finfo.links = <<>> /\ finfo.note # ""

\* C5 (amended): in that case the record returned by fetch_links_for_subject
\* has status warning, empty links, no primary link and an empty note, and
\* the subject's entry of the final results has status warning, empty links
\* and a non-empty note.
C5_NothingFoundIsWarning ==
  /\ (ReturnedFromSources /\ NothingYielded(catalog[fsubject])) =>
        /\ finfo.status = "warning" /\ finfo.links = <<>>
        /\ finfo.primary_link = None /\ finfo.note = ""
  /\ \A k \in 1..Len(results_payload) :
        LET e == results_payload[k] IN
        (FirstRule(normalize_subject(e.subject)) = 0 /\ NothingYielded(catalog[e.subject])) =>
           e.status = "warning" /\ e.links = <<>> /\ e.note # ""

\* C5 witness: a finished run whose final results hold such a subject
C5_Witness ==
  /\ gpc = "done"
  /\ \E k \in 1..Len(results_payload) :
        /\ FirstRule(normalize_subject(results_payload[k].subject)) = 0
        /\ NothingYielded(catalog[results_payload[k].subject])

\* the k-th subject_done event and the k-th final result are those of the
\* k-th pending subject, with a status of the three
OnePerPending ==
  /\ Len(SubjectDoneEvents) = Len(pending)
  /\ Len(results_payload) = Len(pending)
  /\ \A k \in 1..Len(pending) :
        /\ SubjectDoneEvents[k].subject = clean_data_for_json(pending[k])
        /\ SubjectDoneEvents[k].info.status \in Statuses
        /\ results_payload[k].subject = pending[k]
        /\ results_payload[k].status \in Statuses

\* C6 (as claimed): when the stream is complete every pending subject has
\* exactly one subject_done event and one final result, both with a status
\* of the three and a non-empty note.
C6_Original_NoteEverywhere ==
  gpc = "done" =>
     /\ OnePerPending
     /\ \A k \in 1..Len(pending) :
           SubjectDoneEvents[k].info.note # "" /\ results_payload[k].note # ""

\* C6 (amended): ... every final result has a non-empty note, and a
\* subject_done event has one unless its status is warning.
C6_OneEventOneResult ==
  gpc = "done" =>
     /\ OnePerPending
     /\ \A k \in 1..Len(pending) :
           /\ results_payload[k].note # ""
           /\ SubjectDoneEvents[k].info.note = "" => SubjectDoneEvents[k].info.status = "warning"

\* C6 witness: a complete stream of two subjects, one of them with an empty
\* note in its subject_done event
C6_Witness ==
  /\ gpc = "done" /\ Len(pending) = 2
  /\ \E k \in 1..Len(SubjectDoneEvents) : SubjectDoneEvents[k].info.note = ""

\* C7: when the normalized subject contains both tokens of the override rule
\* no adapter is called and the returned record is the rule's two resources
\* in order, the first as primary link, status success.
C7_StaticOverride ==
  (fpc \notin {"off", "call"}
     /\ Contains(Lower(Strip(fsubject)), <<"f", "i", "z">>)
     /\ Contains(Lower(Strip(fsubject)), <<"k", "u", "l">>)) =>
        /\ fpc = "returned" /\ fcalls = <<>>
        /\ finfo.links = <<"https://www.iprbookshop.ru/147933.html",
                           "https://rmebrk.kz/book/1177773">>
        /\ Urls(finfo.resources) = finfo.links
        /\ finfo.primary_link = "https://www.iprbookshop.ru/147933.html"
        /\ finfo.status = "success"

\* C7 witness: the call returned for the mixed-case subject "Fiz kul"
C7_Witness ==
  Returned /\ fsubject = <<"F", "i", "z", " ", "k", "u", "l">> /\ finfo.links # <<>>

\* C8: subject_done events come in submission order: the k-th one is that
\* of the k-th pending subject, whatever the order of completion.
C8_EventsInSubmissionOrder ==
  /\ Len(SubjectDoneEvents) = Len(collected)
  /\ \A k \in 1..Len(collected) :
        /\ collected[k] = k
        /\ SubjectDoneEvents[k].subject = clean_data_for_json(pending[k])

\* C8 witness: all events are out although a later task completed first
C8_Witness ==
  out_of_order /\ Len(pending) >= 2 /\ Len(SubjectDoneEvents) = Len(pending)

Started(i) == i \in DOMAIN future /\ future[i].state \in {"running", "done"}
Waiting(i) == i \in DOMAIN future /\ future[i].state = "queued"

\* C9: at most MAX_WORKERS tasks execute at a time, and a submitted task that
\* waits while fewer than MAX_WORKERS execute eventually starts.
C9_BoundedPool ==
  /\ [](Cardinality(running) <= MAX_WORKERS)
  /\ \A i \in 1..NumPoolTasks :
        (Waiting(i) /\ Cardinality(running) < MAX_WORKERS) ~> Started(i)

\* C9 witness: the pool is full and a task waits
C9_Witness == Cardinality(running) = MAX_WORKERS /\ queue # <<>>

\* C10: the worksheet changes only in the merge step of the generator, when
\* no task is queued or running, every future is done and every
\* subject_done event is out.
C10_MergeAfterAllTasks ==
  [][ws' # ws =>
       /\ gpc = "merge" /\ queue = <<>> /\ running = {}
       /\ \A i \in DOMAIN future : future[i].state = "done"
       /\ Len(collected) = Len(pending)
       /\ Len(SubjectDoneEvents) = Len(pending)]_vars

\* C10 witness: the merge has written a pending subject's row after tasks
\* completed out of order
C10_Witness ==
  /\ gpc = "chunks" /\ out_of_order
  /\ \E r \in DOMAIN ws : r >= START_ROW /\ \E k \in 1..Len(pending) : ws[r].b = pending[k]

SomeTaskRaised == \E i \in DOMAIN future : future[i].state = "done" /\ future[i].raised

\* C11: a task that raises costs only its own subject: that subject's record
\* is the fallback record (no links, null primary link, status error, a
\* note), every other collected subject keeps the record its own task
\* returned and has its subject_done event, and the generator goes on: the
\* raised result is collected like any other, the merge covers every pending
\* subject, and the run ends with the complete event.
C11_FailureIsolated ==
  /\ \A k \in 1..Len(collected) :
        /\ pending[k] \in DOMAIN link_results
        /\ future[k].raised =>
              /\ link_results[pending[k]].links = <<>>
              /\ link_results[pending[k]].primary_link = None
              /\ link_results[pending[k]].status = "error"
              /\ link_results[pending[k]].note # ""
              /\ link_results[pending[k]].resources = <<>>
        /\ ~future[k].raised => link_results[pending[k]] = future[k].info
        /\ Len(SubjectDoneEvents) >= k
        /\ SubjectDoneEvents[k].subject = clean_data_for_json(pending[k])
        /\ SubjectDoneEvents[k].info = link_results[pending[k]]
  /\ \A i \in DOMAIN future :
        (gpc = "collect" /\ i = Len(collected) + 1 /\ future[i].state = "done"
           /\ future[i].raised) => ENABLED Collect
  /\ (SomeTaskRaised /\ gpc \in {"chunks", "complete"}) =>
        /\ Len(collected) = Len(pending)
        /\ Len(results_payload) = Len(pending)
        /\ ENABLED (EmitChunk \/ EmitComplete)
  /\ (SomeTaskRaised /\ gpc = "done") =>
        /\ events[Len(events)].type = "complete"
        /\ Len(results_payload) = Len(pending)

\* C11 witness: a finished run in which the first task raised and the second
\* returned a link
C11_Witness ==
  /\ gpc = "done" /\ Len(pending) = 2
  /\ future[1].raised /\ ~future[2].raised
  /\ link_results[pending[2]].status = "success"
  /\ link_results[pending[1]] = FallbackInfo
  /\ \E r \in DOMAIN ws : ws[r].b = pending[2] /\ ws[r].d = FirstUrl

EventRank(e) ==
  CASE e.type = "subject_start" -> 1
    [] e.type = "subject_done" -> 2
    [] e.type = "results_chunk" -> 3
    [] OTHER -> 4

EventsOfType(t) == SelectSeq(events, LAMBDA e : e.type = t)

\* the stream so far is a prefix of: all subject_start events (pending
\* order), all subject_done events, the results_chunk events, one complete
WellFormedStream ==
  /\ \A k \in 1..(Len(events) - 1) : EventRank(events[k]) <= EventRank(events[k + 1])
  /\ Len(EventsOfType("subject_start")) <= Len(pending)
  /\ \A k \in 1..Len(EventsOfType("subject_start")) :
        events[k].subject = clean_data_for_json(pending[k])
  /\ Len(EventsOfType("subject_done")) <= Len(pending)
  /\ Len(EventsOfType("subject_done")) > 0 =>
        Len(EventsOfType("subject_start")) = Len(pending)
  /\ Len(EventsOfType("results_chunk")) > 0 =>
        Len(EventsOfType("subject_done")) = Len(pending)
  /\ Len(EventsOfType("complete")) <= 1
  /\ Len(EventsOfType("complete")) = 1 =>
        /\ Len(EventsOfType("results_chunk")) >= 1
        /\ events[Len(events)].type = "complete"

StreamComplete ==
  /\ gpc = "done"
  /\ Len(EventsOfType("complete")) = 1
  /\ events[Len(events)].type = "complete"

\* C12: the event stream is well-formed at every moment (subject_start
\* events first, one per pending subject in pending order, then the
\* subject_done events, then the results_chunk events, at most one complete
\* event, which is last), and a run that starts streaming eventually emits
\* the complete event, whatever the adapters answer.
C12_StreamWellFormedAndEnds ==
  /\ [](gpc # "off" => WellFormedStream)
  /\ [](gpc = "done" => StreamComplete)
  /\ (gpc = "subject_start") ~> (gpc = "done")

\* C12 witness: a completed stream of two subjects, one of whose tasks raised
C12_Witness ==
  /\ StreamComplete /\ Len(pending) = 2
  /\ Len(EventsOfType("subject_start")) = 2
  /\ Len(EventsOfType("subject_done")) = 2
  /\ SomeTaskRaised

\* the subject stands in column B of some row, up to trimming and case
InColumnB(w, subject) ==
  \E r \in DOMAIN w : w[r].b # <<>> /\ Lower(Strip(w[r].b)) = Lower(Strip(subject))

\* positions of the run at which the worksheet is still the uploaded one
BeforeMerge == {"responded", "subject_start", "submit", "collect", "merge"}

\* C15: a subject whose normalized name stands in column B of any row of the
\* uploaded worksheet is never pending and never given to a task (tasks exist
\* for the pending subjects only); every such extracted subject is reported
\* in skipped; no two pending subjects have one normalized name.
C15_ExistingNeverPending ==
  /\ gpc \in BeforeMerge =>
        /\ \A k \in 1..Len(pending) : ~InColumnB(ws, pending[k])
        /\ \A i \in 1..Len(up_subjects) :
              (response # "error_400" /\ InColumnB(ws, up_subjects[i])) =>
                 \E j \in 1..Len(skipped) : skipped[j] = up_subjects[i]
        /\ \A j \in 1..Len(skipped) : InColumnB(ws, skipped[j])
  /\ \A j, k \in 1..Len(pending) :
        j # k => Lower(Strip(pending[j])) # Lower(Strip(pending[k]))
  /\ gpc # "request" => DOMAIN future = 1..Len(pending)
  /\ running \subseteq 1..Len(pending)
  /\ \A k \in 1..Len(queue) : queue[k] \in 1..Len(pending)

\* C15 witness: "A" is skipped because row 10, outside the append region,
\* holds " a", while another subject is pending and its task runs
C15_Witness ==
  /\ ws = WsNumbered /\ gpc = "collect"
  /\ \E j \in 1..Len(skipped) : skipped[j] = <<"A">>
  /\ Len(pending) = 1 /\ running = {1}

\* C17: a request without both files, or whose extraction gives no subject,
\* is answered by the error response and by nothing else: no task is created
\* (no adapter is called), the worksheet is not written and no event is
\* emitted, in the answering step and ever after.
C17_NoSubjectsNoWork ==
  [][(gpc # "off" /\ (~have_files \/ up_subjects = <<>>)) =>
       /\ gpc' = "responded" /\ response' = "error_400"
       /\ ws' = ws
       /\ events' = <<>> /\ future' = <<>> /\ queue' = <<>> /\ running' = {}
       /\ link_results' = <<>> /\ pending' = <<>>]_vars

\* C17 witness: the error response to an upload whose curriculum sheet gave
\* no subject, the worksheet holding rows
C17_Witness ==
  /\ have_files /\ up_subjects = <<>> /\ ws = WsAppend
  /\ gpc = "responded" /\ response = "error_400"

\* rows of the append region that hold a subject and a link
LinkRows(w) == {r \in DOMAIN w : r >= START_ROW /\ w[r].b # <<>> /\ w[r].d # ""}

\* rows a call has written: they differ between the two worksheets
Written(before, after) == {r \in DOMAIN after : Row(before, r) # after[r]}

\* C13: the second of two merges with the same pending subjects and records
\* writes no link row whose (normalized subject, link) pair stands in the
\* append region the first merge left (written by it or there before).
C13_SecondMergeAddsNoLinkRow ==
  mpc = "done" =>
    \A r2 \in Written(msheet1, msheet) \cap LinkRows(msheet) :
       \A r \in LinkRows(msheet1) :
          ~(/\ Lower(Strip(msheet1[r].b)) = Lower(Strip(msheet[r2].b))
            /\ msheet1[r].d = msheet[r2].d)

Occurrences(seq, x) == Cardinality({k \in 1..Len(seq) : seq[k] = x})

\* numbers of column A in the append region
RegionNumbers(w) == {w[r].a : r \in {x \in DOMAIN w : x >= START_ROW}} \ {NoNumber}

\* C14: when the append region holds a row (S, L) and the record of the
\* pending subject S lists L, the merge writes no row (S, L), writes one
\* header row for S (per occurrence of S in the pending list) with a number
\* not used in the region before, and every link of the record that no row
\* of S held before stands in a row of S afterwards.
C14_KnownLinkNotAppended ==
  mpc \in {"second", "done"} =>
    \A k \in 1..Len(mpending) :
      LET S == mpending[k]
          links == mrecords[S].links
      IN \A i \in 1..Len(links) :
           (\E r \in LinkRows(msheet0) :
               /\ Lower(Strip(msheet0[r].b)) = Lower(Strip(S))
               /\ msheet0[r].d = links[i]) =>
             /\ ~\E r \in Written(msheet0, msheet1) :
                   /\ Lower(Strip(msheet1[r].b)) = Lower(Strip(S))
                   /\ msheet1[r].d = links[i]
             /\ Cardinality({r \in Written(msheet0, msheet1) :
                               msheet1[r].b = S /\ msheet1[r].d = ""})
                  = Occurrences(mpending, S)
             /\ \A r \in Written(msheet0, msheet1) :
                   msheet1[r].d = "" => msheet1[r].a \notin RegionNumbers(msheet0)
             /\ \A j \in 1..Len(links) :
                   (~\E r \in LinkRows(msheet0) :
                        /\ Lower(Strip(msheet0[r].b)) = Lower(Strip(S))
                        /\ StripLink(msheet0[r].d) = StripLink(links[j])) =>
                     \E r \in LinkRows(msheet1) :
                        /\ Lower(Strip(msheet1[r].b)) = Lower(Strip(S))
                        /\ msheet1[r].d = links[j]

\* every cell of `before` that held a value holds it in `after`
CellsKept(before, after) ==
  \A r \in DOMAIN before :
     /\ before[r].a # NoNumber => Row(after, r).a = before[r].a
     /\ before[r].b # <<>> => Row(after, r).b = before[r].b
     /\ before[r].c # "" => Row(after, r).c = before[r].c
     /\ before[r].d # "" => Row(after, r).d = before[r].d

\* C16: a merge changes no cell that held a value, and every row it writes
\* had no value in any of the columns A-D.
C16_MergeNeverOverwrites ==
  /\ mpc \in {"second", "done"} =>
        /\ CellsKept(msheet0, msheet1)
        /\ \A r \in Written(msheet0, msheet1) : Row(msheet0, r) = EmptyRow
  /\ mpc = "done" =>
        /\ CellsKept(msheet1, msheet)
        /\ \A r \in Written(msheet1, msheet) : Row(msheet1, r) = EmptyRow

AdapterReturned == areturn.kind = "returned"

FaultAt(steps, faults) ==
  \E k \in 1..Len(ahist) : ahist[k].step \in steps /\ ahist[k].fault \in faults

\* the requests whose failure costs the result: the search request, and for
\* search_rmebrk_results also the main page and the parsing of the listing
Decisive(a) == IF a = "rmebrk" THEN {"main", "search", "links"} ELSE {"search"}

C19_AdapterListUnique ==
  AdapterReturned => NoDuplicateUrls(areturn.results)


Answered == nanswer.status \notin {"off", "pending"}

\* C20: get_next_resource answers an unknown source with status error; for a
\* known source whose fresh list (free of repeated urls) holds the shown URL
\* at position i it answers success with the entry at position i+1, and
\* no_more when i is the last position.
C20_NextFollowsCurrent ==
  Answered =>
    /\ nsource \notin KnownSources => nanswer.status = "error"
    /\ (nsource \in KnownSources /\ AdapterReturned /\ NoDuplicateUrls(areturn.results)) =>
         \A i \in 1..Len(areturn.results) :
            areturn.results[i].url = ncurrent =>
              IF i < Len(areturn.results)
              THEN nanswer = Answer("success", <<areturn.results[i + 1]>>)
              ELSE nanswer.status = "no_more"


IsPrefix(s, t) == Len(s) <= Len(t) /\ \A i \in 1..Len(s) : s[i] = t[i]

\* the adapter calls made when the task is at a given position
CallsAt(pc) ==
  CASE pc = "rmebrk" -> <<>>
    [] pc = "urait" -> <<"rmebrk">>
    [] pc = "ipr" -> <<"rmebrk", "urait">>
    [] OTHER -> AllCalls

\* C23: within one task the sources are called one after another in the
\* order RMEB, Urait, IPRbooks, none twice and none before the one before it
\* has returned; a subject without override has been through all three when
\* its record is finalized (or the task ends), whatever the sources answered.
C23_SourcesInSequence ==
  /\ IsPrefix(fcalls, AllCalls)
  /\ fpc \in {"rmebrk", "urait", "ipr", "dedup", "raised"} => fcalls = CallsAt(fpc)
  /\ (fpc = "returned" /\ FirstRule(normalize_subject(fsubject)) = 0) =>
        fcalls = AllCalls

\* C23 witness: a finalized record of a subject for which RMEB already found
\* a book and the two later sources were consulted all the same
C23_Witness ==
  /\ fpc = "returned" /\ fcalls = AllCalls
  /\ Yields(catalog[fsubject], "rmebrk")
  /\ ~Yields(catalog[fsubject], "urait") /\ ~Yields(catalog[fsubject], "ipr")


\* C28: a success answer of get_next_resource never carries the URL that is
\* currently shown.
C28_NextIsNotCurrent ==
  (Answered /\ nanswer.status = "success") => nanswer.resource[1].url # ncurrent

\* C29: with a list that does not change, a walk that passes each answer's
\* URL to the next call is never answered with the same entry twice, gets
\* no_more after at most as many answers as the list has entries, and starts
\* at the first entry when the shown URL is not in the list.
C29_WalkEndsWithoutCycle ==
  NoDuplicateUrls(wlist) =>
    /\ \A i, j \in 1..Len(wtrail) : i # j => wtrail[i] # wtrail[j]
    /\ Len(wtrail) <= Len(wlist)
    /\ (wtrail # <<>> /\ \A i \in 1..Len(wlist) : wlist[i].url # ncurrent
          /\ Len(wtrail) = 1) => wtrail[1] = 1


\* numbers of column A in the window of rows compute_next_number scans
WindowNumbers(w) ==
  {w[r].a : r \in {x \in DOMAIN w : x >= START_ROW /\ x < START_ROW + NUMBER_WINDOW}}
  \ {NoNumber}

Largest(S) == CHOOSE n \in S : \A m \in S : m <= n

\* the header rows a merge wrote: the rows whose number it set
HeaderRows(before, after) == {r \in Written(before, after) : after[r].a # Row(before, r).a}

\* the k-th header row, in row order, holds first + k - 1
NumberedFrom(before, after, first) ==
  /\ Cardinality(HeaderRows(before, after)) = Len(mpending)
  /\ \A r \in HeaderRows(before, after) :
        after[r].a = first + Cardinality({x \in HeaderRows(before, after) : x < r})

\* C24: the first number is one more than the largest integer of
\* column A in the window (1 when there is none), the k-th header row gets
\* that number plus k-1, and no number written stands in column A of the
\* append region already.
C24_NumbersUnusedInRegion ==
  mpc \in {"second", "done"} =>
    /\ NumberedFrom(msheet0, msheet1,
                    IF WindowNumbers(msheet0) = {} THEN 1
                    ELSE Largest(WindowNumbers(msheet0)) + 1)
    /\ \A r \in HeaderRows(msheet0, msheet1) : msheet1[r].a \notin RegionNumbers(msheet0)


\* C30: a second run of process_streaming with the same curriculum and the
\* workbook the first run produced skips every extracted subject, has no
\* pending subject, submits no task, yields no event and leaves the
\* worksheet as the first run left it.
C30_SecondRunChangesNothing ==
  (run = 2 /\ gpc # "request") =>
    /\ response = "ok_no_pending" /\ gpc = "responded"
    /\ skipped = up_subjects
    /\ pending = <<>>
    /\ future = <<>> /\ queue = <<>> /\ running = {} /\ events = <<>>
    /\ ws = ws_first

\* C30 witness: the second run has answered, after a first run that wrote
\* the rows of two subjects, one of them without any link
C30_Witness ==
  /\ run = 2 /\ gpc = "responded"
  /\ Len(up_subjects) = 2 /\ skipped = up_subjects
  /\ \E r \in DOMAIN ws_first : r >= START_ROW /\ ws_first[r].b = up_subjects[2]
  /\ ~\E r \in DOMAIN ws_first : ws_first[r].b = up_subjects[2] /\ ws_first[r].d # ""


\* ------------------------------------------- extract_subjects_from_up33
\* A Cyrillic letter is written as its transliteration followed by an
\* apostrophe, one string per letter; Latin letters stand for themselves.
\* app.py 157-157
header_tokens == {
  <<"n'", "a'", "i'", "m'", "e'", "n'">>,
  <<"p'", "r'", "e'", "d'", "m'", "e'", "t'">>,
  <<"d'", "i'", "s'", "c'", "i'", "p'", "l'", "i'", "n'">>
}

\* app.py 74-90
SUBJECT_EXCLUDE_SUBSTRINGS == {
  <<"u'", "ch'", "e'", "b'", "n'", "a'", "ya'", " ", "n'", "a'", "g'", "r'", "u'", "z'", "k'", "a'">>,
  <<"u'", "ch'", "e'", "b'", "n'">>,
  <<"s'", "e'", "m'", "i'", "n'", "a'", "r'">>,
  <<"p'", "r'", "a'", "k'", "t'", "i'", "ch'", "e'", "s'">>,
  <<"l'", "a'", "b'", "o'", "r'", "a'", "t'", "o'", "r'">>,
  <<"s'", "a'", "m'", "o'", "s'", "t'", "o'", "ya'", "t'", "e'", "l'", "q'">>,
  <<"r'", "u'", "k'", "o'", "v'", "o'", "d'", "i'", "t'", "e'", "l'">>,
  <<"o'", "r'", "g'", "a'", "n'", "i'", "z'", "a'", "c'">>,
  <<"d'", "e'", "k'", "a'", "n'">>,
  <<"z'", "a'", "m'", "e'", "s'", "t'", "i'", "t'", "e'", "l'", "q'">>,
  <<"p'", "r'", "o'", "f'", "e'", "s'", "s'", "o'", "r'">>,
  <<"k'", "a'", "n'", "d'", "i'", "d'", "a'", "t'">>,
  <<"n'", "a'", "u'", "ch'", "n'", "o'">>,
  <<"d'", "e'", "ya'", "t'", "e'", "l'", "q'", "n'", "o'", "s'", "t'">>,
  <<"r'", "a'", "b'", "o'", "t'">>
}

\* app.py 30-73
BANNED_SUBSTRINGS == {
  <<"i'", "n'", "o'", "s'", "t'", "r'", "a'", "n'">>,
  <<"f'", "i'", "z'", "k'", "u'", "l'", "q'", "t'">>,
  <<"f'", "i'", "z'", "i'", "ch'", "e'", "s'", "k'", "a'", "ya'", " ", "k'", "u'", "l'", "q'", "t'", "u'", "r'", "a'">>,
  <<"f'", "i'", "z'", "k'", "u'", "l'", "q'", "t'", "u'", "r'", "a'">>,
  <<"i'", "s'", "t'", "o'", "r'", "i'", "ya'", " ", "k'", "a'", "z'", "a'", "h'", "s'", "t'", "a'", "n'", "a'">>,
  <<"i'", "n'", "f'", "o'", "r'", "m'", "a'", "c'", "i'", "o'", "n'", "n'", "o'">>,
  <<"k'", "o'", "m'", "m'", "u'", "n'", "i'", "k'", "a'", "t'", "i'", "v'", "n'">>,
  <<"f'", "i'", "l'", "o'", "s'", "o'", "f'", "i'", "ya'">>,
  <<"sh'", "e'", "t'", "e'", "l'", " ", "t'", "ii'", "l'", "ii'">>,
  <<"kk'", "a'", "z'", "a'", "kk'">>,
  <<"o'", "r'", "y'", "s'">>,
  <<"t'", "ii'", "l'", "ii'">>,
  <<"kk'", "a'", "z'", "a'", "kk'", "s'", "t'", "a'", "n'", " ", "t'", "a'", "r'", "i'", "h'", "y'">>,
  <<"a'", "kk'", "p'", "a'", "r'", "a'", "t'", "t'", "y'", "kk'">>,
  <<"k'", "o'", "m'", "m'", "u'", "n'", "i'", "k'", "a'", "c'", "i'", "ya'", "l'", "y'", "kk'">>,
  <<"t'", "e'", "h'", "n'", "o'", "l'", "o'", "g'", "i'", "ya'", "l'", "a'", "r'">>,
  <<"d'", "e'", "n'", "e'", " ", "sh'", "y'", "n'", "y'", "kk'", "t'", "y'", "r'", "u'">>,
  <<"zh'", "b'", "b'", "p'">>,
  <<"b'", "p'", " ", "zh'", "k'">>,
  <<"b'", "p'", " ", "t'", "k'">>,
  <<"b'", "p'", " ", "c'", "i'", "k'", "l'", "ii'">>,
  <<"k'", "p'", " ", "zh'", "k'">>,
  <<"k'", "p'", " ", "t'", "k'">>,
  <<"k'", "p'", " ", "c'", "i'", "k'", "l'", "ii'">>,
  <<"c'", "i'", "k'", "l'", "ii'", " ", "b'", "o'", "j'", "y'", "n'", "sh'", "a'">>,
  <<"p'", "o'", " ", "c'", "i'", "k'", "l'", "u'">>,
  <<"o'", "o'", "d'", " ", "o'", "k'">>,
  <<"o'", "o'", "d'", " ", "v'", "k'">>,
  <<"o'", "o'", "d'">>,
  <<"b'", "d'", " ", "v'", "k'">>,
  <<"b'", "d'", " ", "k'", "v'">>,
  <<"b'", "d'">>,
  <<"p'", "d'", " ", "v'", "k'">>,
  <<"p'", "d'", " ", "k'", "v'">>,
  <<"p'", "d'">>,
  <<"eh'", "i'", "r'", "m'">>,
  <<"kk'", "o'", "r'", "y'", "t'", "y'", "n'", "d'", "y'", " ", "a'", "t'", "t'", "e'", "s'", "t'", "a'", "t'", "t'", "a'", "u'">>,
  <<"i'", "t'", "o'", "g'", "o'", "v'", "a'", "ya'", " ", "a'", "t'", "t'", "e'", "s'", "t'", "a'", "c'", "i'", "ya'">>,
  <<"f", "i", "n", "a", "l", " ", "c", "e", "r", "t", "i", "f", "i", "c", "a", "t", "i", "o", "n">>,
  <<"a'", "k'", "a'", "d'", "e'", "m'", "i'", "ya'", "l'", "y'", "kk'", " ", "d'", "e'", "p'", "a'", "r'", "t'", "a'", "m'", "e'", "n'", "t'">>,
  <<"d'", "i'", "r'", "e'", "k'", "t'", "o'", "r'", " ", "a'", "k'", "a'", "d'", "e'", "m'", "i'", "ch'", "e'", "s'", "k'", "o'", "g'", "o'", " ", "d'", "e'", "p'", "a'", "r'", "t'", "a'", "m'", "e'", "n'", "t'", "a'">>,
  <<"n'", "u'", "zh'", "n'", "o'", " ", "t'", "a'", "k'">>
}

MAX_SUBJECT_CHARS == 160
MAX_SUBJECT_WORDS == 20

\* most rows below the title row of a sheet
MaxRows == 3

\* len(text.split()): the maximal runs of non-blank characters
WordCount(text) ==
  Cardinality({i \in 1..Len(text) :
                 text[i] # " " /\ (i = 1 \/ text[i - 1] = " ")})

\* str.find: offset of the leftmost occurrence, -1 for none
FirstAt(text, sep) ==
  LET hits == {i \in 0..(Len(text) - Len(sep)) :
                 \A j \in 1..Len(sep) : text[i + j] = sep[j]}
  IN IF hits = {} THEN -1 ELSE CHOOSE i \in hits : \A k \in hits : i <= k

\* str.split(sep): cuts at the leftmost occurrence, then goes on behind it
RECURSIVE split(_, _)
split(text, sep) ==
  LET i == FirstAt(text, sep)
  IN IF i = -1 THEN <<text>>
     ELSE <<SubSeq(text, 1, i)>>
          \o split(SubSeq(text, i + Len(sep) + 1, Len(text)), sep)

Separator == <<" ", "/", " ">>

\* " / ".join of the cell texts that are not empty
JoinCells(c_text, d_text) ==
  IF c_text # <<>> /\ d_text # <<>> THEN c_text \o Separator \o d_text
  ELSE IF c_text # <<>> THEN c_text
  ELSE d_text

\* the part kept of a text that holds the separator
RussianPart(merged) ==
  IF Contains(merged, Separator)
  THEN LET parts == split(merged, Separator)
           russian_part == Strip(parts[Len(parts)])
       IN IF russian_part # <<>> THEN russian_part ELSE merged
  ELSE merged

\* a key of `seen` that tells texts of different case apart
ExactKey(merged) == merged

SeenKey(merged) == Lower(Strip(merged))

\* a size filter without the ceiling on words
TooManyChars(merged_lower) == Len(merged_lower) > MAX_SUBJECT_CHARS

TooLong(merged_lower) ==
  Len(merged_lower) > MAX_SUBJECT_CHARS \/ WordCount(merged_lower) > MAX_SUBJECT_WORDS

HeaderRow(c_text, d_text) ==
  LET combined_text == Strip(Lower(c_text) \o <<" ">> \o Lower(d_text))
  IN \E token \in header_tokens : Contains(combined_text, token)

\* the text one row reaches the `seen` test with, <<>> when a `continue`
\* was taken before it
RowOffer(row) ==
  LET c_text == Strip(row.c)
      d_text == Strip(row.d)
      merged == RussianPart(JoinCells(c_text, d_text))
      merged_lower == Lower(merged)
  IN IF c_text = <<>> /\ d_text = <<>> THEN <<>>
     ELSE IF HeaderRow(c_text, d_text) THEN <<>>
     ELSE IF \E bad \in SUBJECT_EXCLUDE_SUBSTRINGS : Contains(merged_lower, bad) THEN <<>>
     ELSE IF \E bad \in BANNED_SUBSTRINGS : Contains(merged_lower, bad) THEN <<>>
     ELSE IF TooLong(merged_lower) THEN <<>>
     ELSE merged

\* cell values: <<>> is an empty cell (None)
Cells(c, d) == [c |-> c, d |-> d]

Chars(n) == [i \in 1..n |-> "a"]

WordRow(n) == [i \in 1..(2 * n - 1) |-> IF i % 2 = 1 THEN "a" ELSE " "]

SheetRows == {
  Cells(<<>>, <<>>),
  Cells(<<" ">>, <<>>),
  Cells(<<"M", "a">>, <<>>),
  Cells(<<>>, <<"m", "a", " ">>),
  Cells(<<"A">>, <<"M", "a">>),
  Cells(<<"M", " ", "/">>, <<"m", "a">>),
  Cells(<<"A", " ", "/", " ", "F">>, <<>>),
  Cells(<<"P'", "r'", "e'", "d'", "m'", "e'", "t'">>, <<"A">>),
  Cells(<<"A">>, <<"n'", "a'", "i'", "m'", "e'", "n'", "o'", "v'", "a'", "n'", "i'", "e'">>),
  Cells(<<"r'", "a'", "b'", "o'", "t'", "a'">>, <<>>),
  Cells(<<"A">>, <<"o'", "o'", "d'">>),
  Cells(<<"o'", "o'", "d'">>, <<"A">>),
  Cells(Chars(MAX_SUBJECT_CHARS), <<>>),
  Cells(Chars(MAX_SUBJECT_CHARS + 1), <<>>),
  Cells(WordRow(MAX_SUBJECT_WORDS), <<"F">>),
  Cells(<<>>, WordRow(MAX_SUBJECT_WORDS + 1))
}

RECURSIVE Sheets(_)
Sheets(n) ==
  IF n = 0 THEN {<<>>}
  ELSE Sheets(n - 1) \cup
       {Append(s, row) : s \in {x \in Sheets(n - 1) : Len(x) = n - 1}, row \in SheetRows}

\* sheet[i] is row i + 1 of the work sheet: the loop starts at row 2
InitExtract ==
  /\ FetchIdle /\ StreamIdle /\ MergeIdle /\ AdapterIdle /\ NextIdle /\ catalog = <<>>
  /\ WalkIdle /\ SelectIdle /\ AgainIdle
  /\ sheet \in Sheets(MaxRows)
  /\ er = 0 /\ epc = "rows" /\ esubjects = <<>> /\ eseen = {}
  /\ eoffer = <<>> /\ esrc = <<>>

\* one pass of the loop over the rows
ExtractRow ==
  /\ epc = "rows"
  /\ er < Len(sheet)
  /\ LET r == er + 1
         merged == RowOffer(sheet[r])
         norm == SeenKey(merged)
         kept == merged # <<>> /\ norm \notin eseen
     IN /\ er' = r
        /\ eoffer' = Append(eoffer, merged)
        /\ eseen' = IF kept THEN eseen \cup {norm} ELSE eseen
        /\ esubjects' = IF kept THEN Append(esubjects, merged) ELSE esubjects
        /\ esrc' = IF kept THEN Append(esrc, r) ELSE esrc
  /\ UNCHANGED <<catalog, fetchVars, streamVars, mergeVars, adapterVars, nextVars,
                 walkVars, selectVars, againVars, sheet, epc>>

ExtractReturn ==
  /\ epc = "rows"
  /\ er = Len(sheet)
  /\ epc' = "returned"
  /\ UNCHANGED <<catalog, fetchVars, streamVars, mergeVars, adapterVars, nextVars,
                 walkVars, selectVars, againVars, sheet, er, esubjects, eseen,
                 eoffer, esrc>>

NextExtract == ExtractRow \/ ExtractReturn

SpecExtract == InitExtract /\ [][NextExtract]_vars

\* the first row read whose offered text equals that of row i after trimming
\* and lowercasing
FirstOffer(i) ==
  CHOOSE j \in 1..i :
    /\ eoffer[j] # <<>>
    /\ normalize_subject(eoffer[j]) = normalize_subject(eoffer[i])
    /\ \A h \in 1..(j - 1) :
         eoffer[h] = <<>> \/ normalize_subject(eoffer[h]) # normalize_subject(eoffer[i])

\* C21: extract_subjects_from_up33 returns the subjects in the order of their
\* first occurrence in the sheet, no two of them equal after trimming and
\* lowercasing, each in the casing of its first occurrence.
C21_FirstOccurrencesInOrder ==
  /\ Len(esrc) = Len(esubjects)
  /\ \A k, l \in 1..Len(esubjects) :
       k < l => /\ esrc[k] < esrc[l]
                /\ normalize_subject(esubjects[k]) # normalize_subject(esubjects[l])
  /\ \A i \in 1..Len(eoffer) :
       eoffer[i] # <<>> =>
         \E k \in 1..Len(esubjects) :
           /\ esrc[k] = FirstOffer(i)
           /\ esubjects[k] = eoffer[FirstOffer(i)]

\* a sheet read to its end with a subject repeated in another casing and
\* a second subject
C21_Witness ==
  /\ epc = "returned"
  /\ Len(esubjects) >= 2
  /\ \E i, j \in 1..Len(eoffer) :
       /\ i < j /\ eoffer[i] # <<>> /\ eoffer[j] # <<>>
       /\ eoffer[i] # eoffer[j]
       /\ normalize_subject(eoffer[i]) = normalize_subject(eoffer[j])

\* the text behind the last place where sep stands in text
AfterLast(text, sep) ==
  LET hits == {i \in 0..(Len(text) - Len(sep)) :
                 \A j \in 1..Len(sep) : text[i + j] = sep[j]}
      last == CHOOSE i \in hits : \A k \in hits : k <= i
  IN IF hits = {} THEN text ELSE SubSeq(text, last + Len(sep) + 1, Len(text))

\* C22: for a row whose two cells are joined with " / " and that is neither a
\* header row nor filtered out, the extracted subject is the text after the
\* last " / " of the joined text.
C22_KeepsTextAfterLastSeparator ==
  \A i \in 1..Len(eoffer) :
    LET c_text == Strip(sheet[i].c)
        d_text == Strip(sheet[i].d)
    IN (c_text # <<>> /\ d_text # <<>> /\ eoffer[i] # <<>>) =>
         eoffer[i] = Strip(AfterLast(JoinCells(c_text, d_text), Separator))

\* C27: every returned subject is not empty, holds no blocklist substring
\* when lowercased, has at most 160 characters and at most 20 words and comes
\* from a row without a header token; a sheet whose rows are all rejected
\* yields the empty list.
C27_ReturnedSubjectsPassFilters ==
  /\ \A k \in 1..Len(esubjects) :
       LET s == esubjects[k]
           row == sheet[esrc[k]]
       IN /\ s # <<>>
          /\ \A bad \in SUBJECT_EXCLUDE_SUBSTRINGS \cup BANNED_SUBSTRINGS :
               ~Contains(Lower(s), bad)
          /\ Len(s) <= MAX_SUBJECT_CHARS
          /\ WordCount(s) <= MAX_SUBJECT_WORDS
          /\ \A token \in header_tokens :
               ~Contains(Lower(row.c), token) /\ ~Contains(Lower(row.d), token)
  /\ (epc = "returned" /\ \A i \in 1..Len(eoffer) : eoffer[i] = <<>>) => esubjects = <<>>

\* a full sheet read to its end: one subject of the greatest length kept, one
\* row rejected for its words and one for a blocklist entry
C27_Witness ==
  /\ epc = "returned"
  /\ \E k \in 1..Len(esubjects) : Len(esubjects[k]) = MAX_SUBJECT_CHARS
  /\ \E i \in 1..Len(eoffer) :
       /\ eoffer[i] = <<>>
       /\ WordCount(Strip(sheet[i].d)) > MAX_SUBJECT_WORDS
  /\ \E i \in 1..Len(eoffer) :
       /\ eoffer[i] = <<>>
       /\ \E bad \in BANNED_SUBSTRINGS : Contains(Lower(Strip(sheet[i].d)), bad)


\* ------------------------------ fetch_iprbookshop_reader: choice of a book
unrelated_words == {
  <<"p'", "r'", "o'", "g'", "r'", "a'", "m'", "m'", "i'", "r'", "o'", "v'", "a'", "n'", "i'", "e'">>,
  <<"i'", "n'", "f'", "o'", "r'", "m'", "a'", "t'", "i'", "k'", "a'">>,
  <<"m'", "a'", "t'", "e'", "m'", "a'", "t'", "i'", "k'", "a'">>,
  <<"f'", "i'", "z'", "i'", "k'", "a'">>,
  <<"h'", "i'", "m'", "i'", "ya'">>,
  <<"a'", "n'", "g'", "l'", "i'", "j'", "s'", "k'", "i'", "j'">>,
  <<"ya'", "z'", "y'", "k'">>
}

automation_words == {
  <<"a'", "v'", "t'", "o'", "m'", "a'", "t'", "i'", "z'", "a'", "c'", "i'", "ya'">>,
  <<"a'", "v'", "t'", "o'", "m'", "a'", "t'", "i'", "z'", "i'", "r'", "o'", "v'", "a'", "n'", "n'", "y'", "j'">>,
  <<"a", "u", "t", "o", "m", "a", "t", "i", "o", "n">>,
  <<"a'", "v'", "t'", "o'", "m'", "a'", "t'">>,
  <<"m'", "a'", "sh'", "i'", "n'", "o'", "s'", "t'", "r'", "o'", "e'", "n'", "i'", "e'">>
}

automation_subject_words == {
  <<"a'", "v'", "t'", "o'", "m'", "a'", "t'">>,
  <<"m'", "a'", "sh'", "i'", "n'">>,
  <<"p'", "r'", "o'", "i'", "z'", "v'", "o'", "d'", "s'", "t'", "v'">>
}

MIN_SCORE == 3
START_SCORE == -100

\* sscores entry of an element that was passed over
NoScore == -1000

\* most elements of a result page
MaxElements == 3

\* str.split(): the maximal runs of non-blank characters
RECURSIVE split_words(_)
split_words(text) ==
  LET t == LStrip(text)
      ends == {i \in 1..Len(t) : t[i] = " "}
      stop == IF ends = {} THEN Len(t) + 1 ELSE CHOOSE i \in ends : \A k \in ends : i <= k
  IN IF t = <<>> THEN <<>>
     ELSE <<SubSeq(t, 1, stop - 1)>> \o split_words(SubSeq(t, stop, Len(t)))

KeyWord(w) == Len(w) > 2

StartsWith(text, letter) == text # <<>> /\ Head(text) = letter

\* a score that gives nothing for the whole query in the title
ExactMatchIgnored(subject_lower, title_lower) == 0

ExactMatch(subject_lower, title_lower) ==
  IF Contains(title_lower, subject_lower) THEN 10 ELSE 0

\* the score of one title, as the loop body computes it
Score(subject, title_text) ==
  LET title_lower == Lower(title_text)
      subject_lower == Lower(subject)
      subject_words == SelectSeq(split_words(subject_lower), KeyWord)
      matched_words == Cardinality({i \in 1..Len(subject_words) :
                                      Contains(title_lower, subject_words[i])})
      first_word == IF subject_words # <<>> /\ Contains(title_lower, subject_words[1])
                    THEN 5 ELSE 0
      important_parts == Cardinality({i \in 1..Len(subject_words) :
                                        /\ Len(subject_words[i]) > 4
                                        /\ Contains(title_lower, subject_words[i])})
      unrelated == IF /\ \E word \in unrelated_words : Contains(title_lower, word)
                      /\ ~\E word \in unrelated_words : Contains(subject_lower, word)
                   THEN 15 ELSE 0
      automation_in_title == \E word \in automation_words : Contains(title_lower, word)
      automation_in_subject ==
        \E word \in automation_subject_words : Contains(subject_lower, word)
      automation == IF automation_in_title /\ ~automation_in_subject THEN 25 ELSE 0
      score == ExactMatch(subject_lower, title_lower) + matched_words * 3 + first_word
               + important_parts * 4 - unrelated - automation
  IN IF /\ StartsWith(title_lower, "a'")
        /\ ~StartsWith(subject_lower, "a'")
        /\ score < 5
     THEN score - 2
     ELSE score

\* a href the title link can be followed by
Usable(href) == href # <<>> /\ Head(href) # "javascript"

\* one element of the page: whether it has a title link (`h4 a`), the text
\* and the href of that link, and whether it carries data-book-id
Element(link, title, href, book_id) ==
  [link |-> link, title |-> title, href |-> href, book_id |-> book_id]

GoodHref == <<"/", "1.html">>
ScriptHref == <<"javascript", ":void(0)">>

Queries == {
  <<"h'", "i'", "m'", "i'", "ya'", " ", "v'", "o'", "d'", "y'">>,
  <<"P'", "r'", "a'", "v'", "o'">>,
  <<"a'", "n'", "a'", "t'", "o'", "m'", "i'", "ya'", " ", "ch'", "e'", "l'", "o'", "v'", "e'", "k'", "a'">>,
  <<"M", "a">>
}

PageElements == {
  Element(TRUE, <<"H'", "i'", "m'", "i'", "ya'", " ", "v'", "o'", "d'", "y'">>, GoodHref, FALSE),
  Element(TRUE, <<"v'", "o'", "d'", "y'", " ", "i'", " ", "h'", "i'", "m'", "i'", "ya'">>, GoodHref, FALSE),
  Element(TRUE, <<"A'", "v'", "t'", "o'", "m'", "a'", "t'", "i'", "z'", "a'", "c'", "i'", "ya'">>, GoodHref, FALSE),
  Element(TRUE, <<"f'", "i'", "z'", "i'", "k'", "a'">>, GoodHref, FALSE),
  Element(TRUE, <<"p'", "r'", "a'", "v'", "o'">>, ScriptHref, FALSE),
  Element(TRUE, <<"P'", "r'", "a'", "v'", "o'">>, GoodHref, FALSE),
  Element(TRUE, <<"A'", "t'", "l'", "a'", "s'">>, <<>>, TRUE),
  Element(TRUE, <<"a'", "n'", "a'", "t'", "o'", "m'", "i'", "ya'", " ", "ch'", "e'", "l'", "o'", "v'", "e'", "k'", "a'">>, GoodHref, FALSE),
  Element(TRUE, <<"ch'", "e'", "l'", "o'", "v'", "e'", "k'", "a'", " ", "a'", "n'", "a'", "t'", "o'", "m'", "i'", "ya'">>, GoodHref, TRUE),
  Element(TRUE, <<"M", "a">>, GoodHref, FALSE),
  Element(FALSE, <<>>, <<>>, TRUE),
  Element(FALSE, <<>>, <<>>, FALSE)
}

RECURSIVE Pages(_)
Pages(n) ==
  IF n = 0 THEN {<<>>}
  ELSE Pages(n - 1) \cup
       {Append(p, e) : p \in {x \in Pages(n - 1) : Len(x) = n - 1}, e \in PageElements}

\* the search page held at least one element, or the function had returned
InitSelect ==
  /\ FetchIdle /\ StreamIdle /\ MergeIdle /\ AdapterIdle /\ NextIdle /\ catalog = <<>>
  /\ WalkIdle /\ ExtractIdle /\ AgainIdle
  /\ ssubject \in Queries
  /\ selements \in Pages(MaxElements) \ {<<>>}
  /\ sidx = 0 /\ sscores = <<>>
  /\ best_score = START_SCORE /\ best_element = 0
  /\ sreturn = "scoring"

\* one pass of the scoring loop
ScoreElement ==
  /\ sreturn = "scoring"
  /\ sidx < Len(selements)
  /\ LET i == sidx + 1
         book_elem == selements[i]
         score == Score(ssubject, book_elem.title)
     IN /\ sidx' = i
        /\ sscores' = Append(sscores, IF book_elem.link THEN score ELSE NoScore)
        /\ IF book_elem.link /\ score > best_score
           THEN best_score' = score /\ best_element' = i
           ELSE UNCHANGED <<best_score, best_element>>
  /\ UNCHANGED <<catalog, fetchVars, streamVars, mergeVars, adapterVars, nextVars,
                 walkVars, extractVars, againVars, ssubject, selements, sreturn>>

\* after the loop: the first element when no score reached MIN_SCORE, then
\* the link of the element chosen: its href, else its data-book-id, else None
SelectBook ==
  /\ sreturn = "scoring"
  /\ sidx = Len(selements)
  /\ LET chosen == IF best_element = 0 \/ best_score < MIN_SCORE THEN 1 ELSE best_element
         elem == selements[chosen]
     IN /\ best_element' = chosen
        /\ sreturn' = IF elem.link /\ Usable(elem.href) THEN "href"
                      ELSE IF elem.book_id THEN "book_id"
                      ELSE "None"
  /\ UNCHANGED <<catalog, fetchVars, streamVars, mergeVars, adapterVars, nextVars,
                 walkVars, extractVars, againVars, ssubject, selements, sidx,
                 sscores, best_score>>

NextSelect == ScoreElement \/ SelectBook

SpecSelect == InitSelect /\ [][NextSelect]_vars

\* the elements of the page that have a title link
Candidates == {i \in 1..Len(selements) : selements[i].link}

\* the earliest candidate no other candidate outscores
TopCandidate ==
  CHOOSE i \in Candidates :
    /\ \A j \in Candidates : sscores[j] <= sscores[i]
    /\ \A j \in Candidates : sscores[j] = sscores[i] => i <= j

\* C25: the adapter selects the candidate of the greatest score, the earliest
\* one on ties; when that score is below 3 it selects the first candidate the
\* source returned; so whenever some candidate has a usable title link the
\* adapter returns a result.
C25_SelectsBestOrFirstAndReturns ==
  (sreturn \in {"href", "book_id", "None"} /\ Candidates # {}) =>
    /\ sscores[TopCandidate] >= MIN_SCORE => best_element = TopCandidate
    /\ sscores[TopCandidate] < MIN_SCORE => best_element = 1
    /\ (\E i \in Candidates : Usable(selements[i].href)) => sreturn # "None"

\* the scoring signals of a title other than holding the whole query
MatchedTokens(query, title) ==
  LET tokens == SelectSeq(split_words(Lower(query)), KeyWord)
  IN {tokens[i] : i \in {k \in 1..Len(tokens) : Contains(Lower(title), tokens[k])}}

FirstTokenMatch(query, title) ==
  LET tokens == SelectSeq(split_words(Lower(query)), KeyWord)
  IN tokens # <<>> /\ Contains(Lower(title), tokens[1])

LongTokenMatches(query, title) == {w \in MatchedTokens(query, title) : Len(w) > 4}

UnrelatedVocabulary(title) == \E word \in unrelated_words : Contains(Lower(title), word)

AutomationVocabulary(title) == \E word \in automation_words : Contains(Lower(title), word)

\* the one signal the score takes from the initial letter of a title
InitialLetter(title) == StartsWith(Lower(title), "a'")

SameSignals(query, t1, t2) ==
  /\ MatchedTokens(query, t1) = MatchedTokens(query, t2)
  /\ FirstTokenMatch(query, t1) = FirstTokenMatch(query, t2)
  /\ LongTokenMatches(query, t1) = LongTokenMatches(query, t2)
  /\ UnrelatedVocabulary(t1) = UnrelatedVocabulary(t2)
  /\ AutomationVocabulary(t1) = AutomationVocabulary(t2)
  /\ InitialLetter(t1) = InitialLetter(t2)

HoldsQuery(query, title) == Contains(Lower(title), Lower(query))

\* C26: for one query, a title that holds the lowercased query scores strictly
\* higher than a title that does not hold it and agrees with it on every other
\* scoring signal.
C26_WholeQueryScoresHigher ==
  \A i, j \in 1..Len(sscores) :
    ( /\ selements[i].link /\ selements[j].link
      /\ HoldsQuery(ssubject, selements[i].title)
      /\ ~HoldsQuery(ssubject, selements[j].title)
      /\ SameSignals(ssubject, selements[i].title, selements[j].title) )
    => sscores[i] > sscores[j]

\* two titles scored that match the same two tokens of the query, one of them
\* holding the whole query
C26_Witness ==
  \E i, j \in 1..Len(sscores) :
    /\ selements[i].link /\ selements[j].link
    /\ HoldsQuery(ssubject, selements[i].title)
    /\ ~HoldsQuery(ssubject, selements[j].title)
    /\ SameSignals(ssubject, selements[i].title, selements[j].title)
    /\ Cardinality(MatchedTokens(ssubject, selements[j].title)) = 2

====
